---- MODULE Spec2Model ----
(***************************************************************************)
(* A model of car-sales-dashboard: ScenarioEngine                          *)
(* (models/scenario_engine.py), the dates produced by generate_sample_data *)
(* (models/data.py), the event handlers and chart vars of DashboardState   *)
(* (state.py) and the chart functions (components/).                       *)
(*                                                                         *)
(* Six specifications: SpecAgg (the aggregator alone), Spec (an engine     *)
(* trained and asked for forecasts), SpecBuild (an engine from its         *)
(* constructor on, trained on records and on none), SpecFit (the linear    *)
(* engine predicting what it was fitted to), SpecDash (a dashboard         *)
(* session: a DashboardState and the events it handles) and SpecCharts (a  *)
(* session whose chart vars are evaluated between events).                 *)
(*                                                                         *)
(* Numbers.  The program computes in IEEE doubles; the model computes in   *)
(* exact rationals <<n, d>> (d > 0, lowest terms), so 0.05 is 1/20 and     *)
(* 1.2 is 6/5.  Rounding error of the doubles is not modelled.  A missing   *)
(* value (NaN) is <<0, 0>>; it spreads through sums and products as in     *)
(* IEEE arithmetic, and pandas' sum and mean skip it.                      *)
(*                                                                         *)
(* Dates.  A date is the number of days since 2015-01-01 (start_date of    *)
(* generate_sample_data); YearOf and MonthOf compute the Gregorian         *)
(* calendar fields that .year / .month / .dt.year / .dt.month return.      *)
(*                                                                         *)
(* Regression backend.  LinearRegression / RandomForestRegressor are       *)
(* scikit-learn code, outside the repository.  The model keeps whether     *)
(* the backend was fitted; the value predict returns is an input of the    *)
(* forecast step, drawn from RawPredictions, except in SpecFit, where the  *)
(* least-squares fit is computed.  What fit and predict reject             *)
(* (no rows, missing values, a backend never fitted) is modelled; whether  *)
(* the random forest takes missing values depends on the installed build,  *)
(* lib.  The records of SpecAgg, Spec, SpecBuild and SpecFit hold no       *)
(* missing value, so no build is chosen there.                             *)
(*                                                                         *)
(* Private attributes.  What _filtered_df and _forecast_df of a new        *)
(* DashboardState hold depends on the installed pydantic (PydanticBuilds): *)
(* a session starts from either outcome.                                   *)
(*                                                                         *)
(* Frames as objects.  A DataFrame is modelled by its rows.  Whether a     *)
(* call changes the frame it was given depends on which frame object each  *)
(* of its column assignments lands on; the statements of a function that   *)
(* make, rebind or assign frames are listed (AggregateStatements, ...) and *)
(* executed on the frame passed in (Exec).                                 *)
(*                                                                         *)
(* Events.  Every public method of DashboardState is an event handler, and *)
(* the framework adds a setter set_<var> for each var of the class; a      *)
(* session is a sequence of such events, in any order.                     *)
(***************************************************************************)
EXTENDS Integers, Sequences, FiniteSets, TLC

VARIABLES
    data,       \* the record collection handed to the engine (rows in order)
    monthly,    \* what the last _aggregate_monthly_data(data) call returned
    remonthly,  \* what _aggregate_monthly_data(monthly) returned
    engine,     \* the ScenarioEngine: backend variant, fitted?, training_data
    call,       \* the arguments of the forecast call, and the backend's answers
    trained,    \* what the last train call did
    ret,        \* what the last forecast call did: a series or an exception
    steps,      \* the locals of each iteration of forecast's loop
    built,      \* what ScenarioEngine(model_type) was asked and what it did
    dash,       \* the DashboardState object of the session
    event,      \* the last event handler: its name and what it ran
    lib         \* the scikit-learn build that is installed

vars == <<data, monthly, remonthly, engine, call, trained, ret, steps,
          built, dash, event, lib>>

None == "none"
Pending == [done |-> FALSE]
Returned(v) == [done |-> TRUE, value |-> v]

(***************************************************************************)
(* Bounds of the model.                                                    *)
(***************************************************************************)
MaxRecords == 3      \* rows of an input of the aggregator
MaxHistory == 2      \* rows of an input of train / forecast
MaxMonths == 2       \* largest months_ahead
MaxCalls == 2        \* events of a dashboard session

(***************************************************************************)
(* Exact rational arithmetic.                                              *)
(***************************************************************************)
Abs(x) == IF x < 0 THEN -x ELSE x

RECURSIVE GCD(_, _)
GCD(a, b) == IF b = 0 THEN a ELSE GCD(b, a % b)

NaN == <<0, 0>>
IsNaN(a) == a[2] = 0

Norm(n, d) ==
    IF d = 0 THEN NaN
    ELSE LET s == IF d < 0 THEN -1 ELSE 1
             g == GCD(Abs(n), Abs(d))
         IN  <<(s * n) \div g, (s * d) \div g>>

Rat(n) == <<n, 1>>
RAdd(a, b) == Norm(a[1] * b[2] + b[1] * a[2], a[2] * b[2])
RMul(a, b) == Norm(a[1] * b[1], a[2] * b[2])
RDiv(a, k) == Norm(a[1], a[2] * k)

(***************************************************************************)
(* The calendar: datetime(2015, 1, 1) + timedelta(days = d).               *)
(***************************************************************************)
StartYear == 2015
GenStrideDays == 30        \* timedelta(days=30*i) of generate_sample_data
ForecastStrideDays == 30   \* timedelta(days=30*i) of forecast

IsLeap(y) == (y % 4 = 0 /\ y % 100 # 0) \/ y % 400 = 0
DaysInYear(y) == IF IsLeap(y) THEN 366 ELSE 365
DaysInMonth(y, m) ==
    IF m = 2 THEN (IF IsLeap(y) THEN 29 ELSE 28)
    ELSE IF m \in {4, 6, 9, 11} THEN 30 ELSE 31

RECURSIVE YearFrom(_, _)
YearFrom(y, d) ==
    IF d < DaysInYear(y) THEN <<y, d>> ELSE YearFrom(y + 1, d - DaysInYear(y))

RECURSIVE MonthFrom(_, _, _)
MonthFrom(y, m, d) ==
    IF d < DaysInMonth(y, m) THEN m ELSE MonthFrom(y, m + 1, d - DaysInMonth(y, m))

YearOf(date) == YearFrom(StartYear, date)[1]
MonthOf(date) == LET yd == YearFrom(StartYear, date) IN MonthFrom(yd[1], 1, yd[2])

\* dates = [start_date + timedelta(days=30*i) for i in range(36)]
GenDate(i) == GenStrideDays * i

(***************************************************************************)
(* ScenarioEngine._aggregate_monthly_data                                  *)
(***************************************************************************)
Exogenous == <<"unemployment", "gas_price", "cpi_all", "search_volume">>

\* A frame / list holds its rows: the sequence with every row computed.
Rows(f) == f \o <<>>

RECURSIVE SortedSeq(_)
SortedSeq(S) ==
    IF S = {} THEN <<>>
    ELSE LET m == CHOOSE x \in S : \A y \in S : x <= y
         IN  <<m>> \o SortedSeq(S \ {m})

\* the distinct dates in order of first appearance (groupby(sort=False))
RECURSIVE FirstSeen(_)
FirstSeen(rows) ==
    IF rows = <<>> THEN <<>>
    ELSE LET before == FirstSeen(SubSeq(rows, 1, Len(rows) - 1))
             d == rows[Len(rows)].date
         IN  IF \E k \in DOMAIN before : before[k] = d THEN before
             ELSE Append(before, d)

\* Variant: the groups are not sorted.
GroupKeysUnsorted(rows) == FirstSeen(rows)

\* the group keys of data.groupby('date'): the distinct dates, ascending
GroupKeys(rows) == SortedSeq({rows[i].date : i \in DOMAIN rows})

\* the rows of one group, in row order
GroupRows(rows, key) == SelectSeq(rows, LAMBDA r : r.date = key)

\* sum() of a column: missing values are skipped (skipna)
RECURSIVE SumCol(_, _)
SumCol(rows, col) ==
    IF rows = <<>> THEN Rat(0)
    ELSE LET rest == SumCol(SubSeq(rows, 1, Len(rows) - 1), col)
             x == rows[Len(rows)][col]
         IN  IF IsNaN(x) THEN rest ELSE RAdd(rest, x)

\* mean() of a column: over the values that are present; NaN when none is
MeanCol(rows, col) ==
    LET present == SelectSeq(rows, LAMBDA r : ~IsNaN(r[col]))
    IN  RDiv(SumCol(present, col), Len(present))

\* data.groupby('date')[col].sum().reset_index()
GroupBySum(rows, col) ==
    LET keys == GroupKeys(rows)
    IN  Rows([k \in 1..Len(keys) |->
            [date |-> keys[k], val |-> SumCol(GroupRows(rows, keys[k]), col)]])

\* Variant: the groups of the means are not sorted.
GroupByMeanUnsorted(rows, col) ==
    LET keys == FirstSeen(rows)
    IN  Rows([k \in 1..Len(keys) |->
            [date |-> keys[k], val |-> MeanCol(GroupRows(rows, keys[k]), col)]])

\* Variant: the mean divides by the rows of the frame, not of the group.
GroupByMeanOverFrame(rows, col) ==
    LET keys == GroupKeys(rows)
    IN  Rows([k \in 1..Len(keys) |->
            [date |-> keys[k],
             val |-> RDiv(SumCol(GroupRows(rows, keys[k]), col), Len(rows))]])

\* data.groupby('date')[col].mean().reset_index()
GroupByMean(rows, col) ==
    LET keys == GroupKeys(rows)
    IN  Rows([k \in 1..Len(keys) |->
            [date |-> keys[k], val |-> MeanCol(GroupRows(rows, keys[k]), col)]])

\* The five frames are combined by position (each has the index 0..n-1).
AggregateMonthly(rows) ==
    LET monthly_sales == GroupBySum(rows, "sales")
        monthly_unemployment == GroupByMean(rows, "unemployment")
        monthly_gas_price == GroupByMean(rows, "gas_price")
        monthly_cpi == GroupByMean(rows, "cpi_all")
        monthly_search == GroupByMean(rows, "search_volume")
    IN  Rows([k \in 1..Len(monthly_sales) |->
            [date |-> monthly_sales[k].date,
             year |-> YearOf(monthly_sales[k].date),
             month |-> MonthOf(monthly_sales[k].date),
             sales |-> monthly_sales[k].val,
             unemployment |-> monthly_unemployment[k].val,
             gas_price |-> monthly_gas_price[k].val,
             cpi_all |-> monthly_cpi[k].val,
             search_volume |-> monthly_search[k].val]])

(***************************************************************************)
(* Inputs: sales records.                                                  *)
(***************************************************************************)
\* (unemployment, gas_price, cpi_all, search_volume) of a record
ProfileA == [unemployment |-> Rat(5), gas_price |-> Rat(3),
             cpi_all |-> Rat(250), search_volume |-> Rat(80)]
ProfileB == [unemployment |-> Rat(7), gas_price |-> Rat(4),
             cpi_all |-> Rat(260), search_volume |-> Rat(41)]

MakeRecord(date, sales, p) ==
    [date |-> date, sales |-> Rat(sales),
     unemployment |-> p.unemployment, gas_price |-> p.gas_price,
     cpi_all |-> p.cpi_all, search_volume |-> p.search_volume]

SeqsUpTo(S, n) == UNION {[1..k -> S] : k \in 0..n}

\* 2015-01-01, 2015-01-31 and 2015-05-31, as generate_sample_data dates them
AggDates == {GenDate(0), GenDate(1), GenDate(5)}
AggRecords ==
    {MakeRecord(d, s, p) : d \in AggDates, s \in {100, 250}, p \in {ProfileA, ProfileB}}
AggInputs == SeqsUpTo(AggRecords, MaxRecords)

\* records of 2015-01-01, 2015-05-31 (two of them) and 2015-11-27
HistoryRecords ==
    { MakeRecord(GenDate(0), 100, ProfileA),
      MakeRecord(GenDate(5), 100, ProfileA),
      MakeRecord(GenDate(5), 250, ProfileB),
      MakeRecord(GenDate(11), 250, ProfileB) }
HistoryInputs == SeqsUpTo(HistoryRecords, MaxHistory)

(***************************************************************************)
(* The frame a call was given, as the call leaves it.  The statements of a *)
(* function that concern frames are of three kinds: a name is bound to a   *)
(* frame the right-hand side makes (groupby(..).sum().reset_index(),       *)
(* pd.DataFrame(..), pd.concat(..), df.copy(), frame[mask]); a name is     *)
(* bound to the frame another name is bound to (a plain assignment, an     *)
(* argument passed); a column is assigned on the frame a name is bound to. *)
(***************************************************************************)
New(name) == [op |-> "new", name |-> name]
Alias(name, of) == [op |-> "alias", name |-> name, of |-> of]
Assign(name, column, values) ==
    [op |-> "assign", name |-> name, column |-> column, values |-> values]

\* frame[name] = values: the frame with the column added or replaced
WithColumn(frame, name, values) ==
    Rows([k \in 1..Len(frame) |->
        [c \in (DOMAIN frame[k]) \cup {name} |->
            IF c = name THEN values[k] ELSE frame[k][c]]])

\* the values a statement assigns to the rows of a frame
AssignedValues(values, rows) ==
    CASE values = "False" -> [k \in DOMAIN rows |-> FALSE]
      [] values = "dt.year" -> [k \in DOMAIN rows |-> YearOf(rows[k].date)]
      [] values = "dt.month" -> [k \in DOMAIN rows |-> MonthOf(rows[k].date)]

\* The statements run one after the other; bound holds the names that are
\* bound to the frame passed in, rows its rows.  Gives the rows it holds in
\* the end.
RECURSIVE Exec(_, _, _)
Exec(stmts, bound, rows) ==
    IF stmts = <<>> THEN rows
    ELSE CASE Head(stmts).op = "new" ->
                  Exec(Tail(stmts), bound \ {Head(stmts).name}, rows)
           [] Head(stmts).op = "alias" ->
                  Exec(Tail(stmts),
                       IF Head(stmts).of \in bound
                       THEN bound \cup {Head(stmts).name}
                       ELSE bound \ {Head(stmts).name},
                       rows)
           [] Head(stmts).op = "assign" ->
                  Exec(Tail(stmts), bound,
                       IF Head(stmts).name \in bound
                       THEN WithColumn(rows, Head(stmts).column,
                                       AssignedValues(Head(stmts).values, rows))
                       ELSE rows)

\* _aggregate_monthly_data(data), lines 182-204: five frames from groupby,
\* year and month assigned on the first, and the frame returned made from
\* their columns
AggregateStatements ==
    << New("monthly_sales"), New("monthly_unemployment"),
       New("monthly_gas_price"), New("monthly_cpi"), New("monthly_search"),
       Assign("monthly_sales", "year", "dt.year"),
       Assign("monthly_sales", "month", "dt.month"),
       New("monthly_data") >>

\* train(data), lines 81-91: "monthly_data = self._aggregate_monthly_data(data)";
\* the arrays X and y are taken from monthly_data
TrainStatements == AggregateStatements

\* Variant: the flag of the historical rows is set on the frame passed in.
ForecastStatementsFlaggingInput ==
    AggregateStatements
        \o << Assign("data", "is_forecast", "False"), New("combined_data") >>

\* forecast(data, ...), lines 114-169: the aggregate, its is_forecast
\* column, and the concatenation returned
ForecastStatements ==
    AggregateStatements
        \o << Assign("monthly_data", "is_forecast", "False"), New("combined_data") >>

\* the frame passed in, as _aggregate_monthly_data leaves it
InputAfterAggregate(rows) == Exec(AggregateStatements, {"data"}, rows)

(***************************************************************************)
(* The aggregator as a state machine: a record collection is aggregated,   *)
(* and the result aggregated again.                                        *)
(***************************************************************************)
NoEngine == [kind |-> None, fitted |-> FALSE, training_data |-> Pending]

InitAgg ==
    /\ data \in AggInputs
    /\ monthly = Pending
    /\ remonthly = Pending
    /\ engine = NoEngine
    /\ call = Pending
    /\ trained = Pending
    /\ ret = Pending
    /\ steps = <<>>
    /\ built = Pending
    /\ dash = None
    /\ event = None
    /\ lib = None

Aggregate ==
    /\ ~monthly.done
    /\ monthly' = Returned(AggregateMonthly(data))
    /\ data' = InputAfterAggregate(data)
    /\ UNCHANGED <<remonthly, engine, call, trained, ret, steps,
                   built, dash, event, lib>>

ReAggregate ==
    /\ monthly.done
    /\ ~remonthly.done
    /\ remonthly' = Returned(AggregateMonthly(monthly.value))
    /\ UNCHANGED <<data, monthly, engine, call, trained, ret, steps,
                   built, dash, event, lib>>

NextAgg == Aggregate \/ ReAggregate

SpecAgg == InitAgg /\ [][NextAgg]_vars

(***************************************************************************)
(* ScenarioEngine.__init__, train and forecast                             *)
(***************************************************************************)
Raised(e) == [ok |-> FALSE, error |-> e]
Value(v) == [ok |-> TRUE, value |-> v]

\* ScenarioEngine(model_type): the backend is constructed, not fitted, and
\* the engine has no training_data attribute yet.
NewEngine(model_type) ==
    [kind |-> model_type, fitted |-> FALSE, training_data |-> Pending]

\* Variant: a model_type that is not "linear" gets the forest backend.
ConstructLenient(model_type) ==
    IF model_type = "linear"
    THEN [out |-> Value(None), engine |-> NewEngine("linear")]
    ELSE [out |-> Value(None), engine |-> NewEngine("forest")]

\* ScenarioEngine.__init__(model_type): the outcome and the object obtained
\* (NoEngine when the constructor raised)
Construct(model_type) ==
    IF model_type = "linear"
    THEN [out |-> Value(None), engine |-> NewEngine("linear")]
    ELSE IF model_type = "forest"
    THEN [out |-> Value(None), engine |-> NewEngine("forest")]
    ELSE [out |-> Raised("ValueError"), engine |-> NoEngine]

\* The builds of scikit-learn (setup.py pins no version): from 1.4 on the
\* random forest takes feature matrices with missing values, before it
\* rejects them as the linear regression always does.
SklearnBuilds == {"sklearn<1.4", "sklearn>=1.4"}
AcceptsMissing(kind) == kind = "forest" /\ lib = "sklearn>=1.4"

\* the feature columns of a row hold a missing value
FeaturesMissing(row) == \E c \in DOMAIN Exogenous : IsNaN(row[Exogenous[c]])
HasMissing(monthly_data) ==
    \E k \in DOMAIN monthly_data : FeaturesMissing(monthly_data[k])

\* fit(X, y) rejects a feature matrix of zero rows, and one with missing
\* values unless the backend of this build takes them
FitRejects(kind, monthly_data) ==
    \/ monthly_data = <<>>
    \/ HasMissing(monthly_data) /\ ~AcceptsMissing(kind)

\* "monthly_sales['date'].dt" (line 189) takes a column of datetimes.
\* load_data reads the CSV file with parse_dates=['date']; when a date of
\* the file cannot be parsed, read_csv leaves the column as it is, of dtype
\* object, and .dt raises AttributeError.  The rows of such a frame carry
\* the dtype in the field date_dtype; rows of datetimes have no such field.
DatesParsed(rows) == \A k \in DOMAIN rows : "date_dtype" \notin DOMAIN rows[k]

\* Variant: training_data is assigned before the backend is fitted.
TrainEngineStoresFirst(e, rows) ==
    LET monthly_data == AggregateMonthly(rows)
    IN  IF ~DatesParsed(rows)
        THEN [out |-> Raised("AttributeError"), engine |-> e]
        ELSE IF FitRejects(e.kind, monthly_data)
        THEN [out |-> Raised("ValueError"),
              engine |-> [e EXCEPT !.training_data = Returned(monthly_data)]]
        ELSE [out |-> Value(None),
              engine |-> [e EXCEPT !.fitted = TRUE,
                                   !.training_data = Returned(monthly_data)]]

\* train(data): the outcome and the engine afterwards.  The aggregation
\* raises AttributeError when the dates are no datetimes; fit() validates
\* its input before it touches the estimator.
TrainEngine(e, rows) ==
    LET monthly_data == AggregateMonthly(rows)
    IN  IF ~DatesParsed(rows)
        THEN [out |-> Raised("AttributeError"), engine |-> e]
        ELSE IF FitRejects(e.kind, monthly_data)
        THEN [out |-> Raised("ValueError"), engine |-> e]
        ELSE [out |-> Value(None),
              engine |-> [e EXCEPT !.fitted = TRUE,
                                   !.training_data = Returned(monthly_data)]]

\* Variant: every step uses the factor of the first.
TimeFactorFlat(i) == Rat(1)

\* Variant: the factor counts the steps from one.
TimeFactorFromOne(i) == RAdd(Rat(1), RMul(Rat(i + 1), <<1, 20>>))

\* time_factor = 1.0 + (i * 0.05), i the index enumerate() gives
TimeFactor(i) == RAdd(Rat(1), RMul(Rat(i), <<1, 20>>))

\* future_dates = [last_date + timedelta(days=30*i) for i in range(1, months_ahead+1)]
\* Variant: range(months_ahead), so the first date is the anchor's.
FutureDatesFromZero(last_date, months_ahead) ==
    Rows([k \in 1..months_ahead |-> last_date + ForecastStrideDays * (k - 1)])

\* Variant: range(1, abs(months_ahead)+1), a negative count read as its size.
FutureDatesAbsolute(last_date, months_ahead) ==
    Rows([i \in 1..Abs(months_ahead) |-> last_date + ForecastStrideDays * i])

\* Variant: a stride of 31 days.
FutureDatesLongStride(last_date, months_ahead) ==
    Rows([i \in 1..months_ahead |-> last_date + (ForecastStrideDays + 1) * i])

FutureDates(last_date, months_ahead) ==
    Rows([i \in 1..months_ahead |-> last_date + ForecastStrideDays * i])

SpringYearEnd == {3, 4, 5, 11, 12}
Winter == {1, 2}

\* Variant: the two factors exchanged.
SeasonalAdjustSwapped(month, predicted_sales) ==
    IF month \in SpringYearEnd THEN RMul(predicted_sales, <<4, 5>>)
    ELSE IF month \in Winter THEN RMul(predicted_sales, <<6, 5>>)
    ELSE predicted_sales

\* the seasonal adjustment of a prediction
SeasonalAdjust(month, predicted_sales) ==
    IF month \in SpringYearEnd THEN RMul(predicted_sales, <<6, 5>>)
    ELSE IF month \in Winter THEN RMul(predicted_sales, <<4, 5>>)
    ELSE predicted_sales

\* last_values[col] * modifier * time_factor
Project(last_value, modifier, time_factor) ==
    RMul(RMul(last_value, modifier), time_factor)

\* Variant: gas_price scaled by the unemployment modifier.
LoopStepCrossed(last_values, mods, k, date, raw) ==
    LET time_factor == TimeFactor(k - 1)
    IN  [i |-> k - 1,
         date |-> date,
         time_factor |-> time_factor,
         unemployment |-> Project(last_values.unemployment, mods.unemployment, time_factor),
         gas_price |-> Project(last_values.gas_price, mods.unemployment, time_factor),
         cpi |-> Project(last_values.cpi_all, mods.cpi, time_factor),
         search_volume |-> Project(last_values.search_volume, mods.search_volume, time_factor),
         raw |-> raw,
         predicted_sales |-> SeasonalAdjust(MonthOf(date), raw)]

\* The locals of the loop's iteration for future_dates[k] (enumerate index
\* k - 1); raw is what self.model.predict(features)[0] returned.
LoopStep(last_values, mods, k, date, raw) ==
    LET time_factor == TimeFactor(k - 1)
    IN  [i |-> k - 1,
         date |-> date,
         time_factor |-> time_factor,
         unemployment |-> Project(last_values.unemployment, mods.unemployment, time_factor),
         gas_price |-> Project(last_values.gas_price, mods.gas_price, time_factor),
         cpi |-> Project(last_values.cpi_all, mods.cpi, time_factor),
         search_volume |-> Project(last_values.search_volume, mods.search_volume, time_factor),
         raw |-> raw,
         predicted_sales |-> SeasonalAdjust(MonthOf(date), raw)]

\* the record appended to forecast_data
ForecastRecord(st) ==
    [date |-> st.date, year |-> YearOf(st.date), month |-> MonthOf(st.date),
     sales |-> st.predicted_sales,
     unemployment |-> st.unemployment, gas_price |-> st.gas_price,
     cpi_all |-> st.cpi, search_volume |-> st.search_volume,
     is_forecast |-> TRUE]

\* monthly_data['is_forecast'] = False
MarkHistorical(monthly_data) ==
    Rows([k \in 1..Len(monthly_data) |->
        [date |-> monthly_data[k].date, year |-> monthly_data[k].year,
         month |-> monthly_data[k].month, sales |-> monthly_data[k].sales,
         unemployment |-> monthly_data[k].unemployment,
         gas_price |-> monthly_data[k].gas_price,
         cpi_all |-> monthly_data[k].cpi_all,
         search_volume |-> monthly_data[k].search_volume,
         is_forecast |-> FALSE]])

\* forecast from the flagged monthly frame on (lines 119-169); raws[k] is
\* what the backend returns in iteration k.  Gives the outcome and the
\* loop's locals.  iloc[-1] of an empty frame raises IndexError; predict of
\* a backend that was never fitted raises NotFittedError in the first
\* iteration; a fitted one raises ValueError when the features hold a
\* missing value it does not take (the anchor's, whatever the modifiers).
ForecastFrom(e, monthly_data, mods, months_ahead, raws) ==
    IF monthly_data = <<>>
    THEN [out |-> Raised("IndexError"), steps |-> <<>>]
    ELSE LET last_values == monthly_data[Len(monthly_data)]
             future_dates == FutureDates(last_values.date, months_ahead)
             loop == Rows([k \in 1..Len(future_dates) |->
                        LoopStep(last_values, mods, k, future_dates[k], raws[k])])
             forecast_data == Rows([k \in 1..Len(loop) |-> ForecastRecord(loop[k])])
         IN  IF Len(future_dates) > 0 /\ ~e.fitted
             THEN [out |-> Raised("NotFittedError"), steps |-> <<>>]
             ELSE IF /\ Len(future_dates) > 0
                     /\ FeaturesMissing(last_values)
                     /\ ~AcceptsMissing(e.kind)
             THEN [out |-> Raised("ValueError"), steps |-> <<>>]
             ELSE [out |-> Value(monthly_data \o forecast_data), steps |-> loop]

\* the frame passed in, as train and as forecast leave it
InputAfterTrain(rows) == Exec(TrainStatements, {"data"}, rows)
InputAfterForecast(rows) == Exec(ForecastStatements, {"data"}, rows)

\* Variant: the call refuses an engine that was never trained before it
\* looks at months_ahead.
ForecastCallGuarded(e, rows, mods, months_ahead, raws) ==
    IF ~e.fitted
    THEN [out |-> Raised("NotFittedError"), steps |-> <<>>]
    ELSE IF ~DatesParsed(rows)
    THEN [out |-> Raised("AttributeError"), steps |-> <<>>]
    ELSE ForecastFrom(e, MarkHistorical(AggregateMonthly(rows)), mods, months_ahead, raws)

\* forecast(data, modifiers, months_ahead) on engine e; the aggregation
\* (line 114) raises AttributeError when the dates are no datetimes
ForecastCall(e, rows, mods, months_ahead, raws) ==
    IF ~DatesParsed(rows)
    THEN [out |-> Raised("AttributeError"), steps |-> <<>>]
    ELSE ForecastFrom(e, MarkHistorical(AggregateMonthly(rows)), mods, months_ahead, raws)

(***************************************************************************)
(* The engine as a state machine: constructed, trained on the records,     *)
(* asked for forecasts.                                                    *)
(***************************************************************************)
ModelTypes == {"linear", "forest"}
\* what a caller may pass as model_type: the two supported names, the
\* dashboard's label of one of them, and a name of no backend
ModelTypeArgs == ModelTypes \cup {"Linear Regression", "ridge"}

\* the four modifiers of a forecast call: the defaults, each modifier
\* doubled alone, and one call with all four different (0 and negative
\* modifiers are accepted)
Ones == [unemployment |-> Rat(1), gas_price |-> Rat(1),
         cpi |-> Rat(1), search_volume |-> Rat(1)]
Modifiers ==
    {Ones} \cup {[Ones EXCEPT ![m] = Rat(2)] : m \in DOMAIN Ones}
           \cup {[unemployment |-> <<1, 2>>, gas_price |-> Rat(0),
                   cpi |-> Rat(-1), search_volume |-> Rat(3)]}
MonthsAhead == (-1)..MaxMonths
RawPredictions == {Rat(1000), Rat(-300)}

\* the arguments of a forecast call, with what the backend will predict
Requests ==
    UNION {[mods : Modifiers, months_ahead : {n}, raws : [1..n -> RawPredictions]]
              : n \in MonthsAhead}

\* Init: ScenarioEngine(model_type) has been called; the records and the
\* arguments of the forecast calls are chosen.
Init ==
    /\ data \in HistoryInputs
    /\ monthly = Pending
    /\ remonthly = Pending
    /\ \E t \in ModelTypes :
          /\ built = Returned([model_type |-> t, out |-> Construct(t).out])
          /\ engine = Construct(t).engine
    /\ call \in Requests
    /\ trained = Pending
    /\ ret = Pending
    /\ steps = <<>>
    /\ dash = None
    /\ event = None
    /\ lib = None

\* engine.train(rows); there is no engine to call when the constructor
\* raised
\* engine.train(rows), which leaves the records as after
TrainOn(rows, after) ==
    /\ built.value.out.ok
    /\ LET r == TrainEngine(engine, rows)
       IN  /\ engine' = r.engine
           /\ trained' = Returned([rows |-> rows, out |-> r.out])
    /\ data' = after
    /\ UNCHANGED <<monthly, remonthly, call, ret, steps, built, dash, event, lib>>

\* engine.train(data)
Train == TrainOn(data, InputAfterTrain(data))

\* engine.forecast(data, modifiers, months_ahead)
Forecast ==
    /\ built.value.out.ok
    /\ LET r == ForecastCall(engine, data, call.mods, call.months_ahead, call.raws)
       IN  /\ ret' = Returned(r.out)
           /\ steps' = r.steps
    /\ data' = InputAfterForecast(data)
    /\ UNCHANGED <<monthly, remonthly, engine, call, trained, built, dash, event, lib>>

Next == Train \/ Forecast

Spec == Init /\ [][Next]_vars

(***************************************************************************)
(* The engine's life from its constructor on: any model_type is passed,    *)
(* the engine is trained on the records or on an empty record set, in any  *)
(* order and any number of times, and asked for a short forecast.          *)
(***************************************************************************)
\* the forecast horizon of the calls of this specification
BuildMonths == 1
BuildRequests ==
    {[mods |-> Ones, months_ahead |-> BuildMonths, raws |-> [k \in 1..BuildMonths |-> r]]
        : r \in RawPredictions}

InitBuild ==
    /\ data \in HistoryInputs
    /\ monthly = Pending
    /\ remonthly = Pending
    /\ \E t \in ModelTypeArgs :
          /\ built = Returned([model_type |-> t, out |-> Construct(t).out])
          /\ engine = Construct(t).engine
    /\ call \in BuildRequests
    /\ trained = Pending
    /\ ret = Pending
    /\ steps = <<>>
    /\ dash = None
    /\ event = None
    /\ lib = None

\* engine.train(pd.DataFrame of no rows)
TrainEmpty == TrainOn(<<>>, data)

NextBuild == Train \/ TrainEmpty \/ Forecast

SpecBuild == InitBuild /\ [][NextBuild]_vars

(***************************************************************************)
(* The linear backend, fitted.  LinearRegression.fit centres the features  *)
(* and the target and takes the least-squares solution of smallest norm:   *)
(* a feature that does not vary has coefficient 0, when one feature        *)
(* varies its coefficient is the simple-regression slope, and features     *)
(* that vary together share what either could explain.  The solution is    *)
(* computed exactly, from the normal equations.                            *)
(***************************************************************************)
RSub(a, b) == RAdd(a, RMul(Rat(-1), b))
RQuot(a, b) == Norm(a[1] * b[2], a[2] * b[1])
RECURSIVE RSum(_)
RSum(xs) == IF xs = <<>> THEN Rat(0) ELSE RAdd(Head(xs), RSum(Tail(xs)))
RMean(xs) == RDiv(RSum(xs), Len(xs))
\* monthly_data[col].values
Column(frame, col) == Rows([k \in 1..Len(frame) |-> frame[k][col]])
\* the sum over the rows of (x - mean x) * (y - mean y)
CoDeviation(xs, ys) ==
    RSum(Rows([k \in 1..Len(xs) |->
        RMul(RSub(xs[k], RMean(xs)), RSub(ys[k], RMean(ys)))]))
\* the feature takes more than one value
Varies(xs) == \E j, k \in DOMAIN xs : xs[j] # xs[k]

\* X'X and X'y of the centred features X and the centred target y
Gram(monthly_data) ==
    [a \in DOMAIN Exogenous |-> [b \in DOMAIN Exogenous |->
        CoDeviation(Column(monthly_data, Exogenous[a]),
                    Column(monthly_data, Exogenous[b]))]]
Moments(monthly_data) ==
    [a \in DOMAIN Exogenous |->
        CoDeviation(Column(monthly_data, Exogenous[a]),
                    Column(monthly_data, "sales"))]
\* the products of a square matrix with a vector and with a matrix, and
\* the matrix with the vector as one more column
MatVec(m, v) ==
    [i \in DOMAIN m |-> RSum(Rows([k \in DOMAIN v |-> RMul(m[i][k], v[k])]))]
MatMul(m, n) ==
    [i \in DOMAIN m |-> [j \in DOMAIN m |->
        RSum(Rows([k \in DOMAIN m |-> RMul(m[i][k], n[k][j])]))]]
Augmented(m, v) == [i \in DOMAIN m |-> Append(m[i], v[i])]
\* (a matrix or vector that is used many times is first bound to its
\* value, as the one element of a set)
\* Gauss-Jordan elimination of an augmented matrix, from row r and column
\* c on: the first row from r on that has an entry in column c is moved to
\* row r and scaled, and the column is cleared in the other rows
PivotRow(m, r, c) ==
    IF \E i \in r..Len(m) : m[i][c][1] # 0
    THEN CHOOSE i \in r..Len(m) :
             m[i][c][1] # 0 /\ \A j \in r..(i - 1) : m[j][c][1] = 0
    ELSE 0
SwapRows(m, r, p) == [m EXCEPT ![r] = m[p], ![p] = m[r]]
ScaleRow(row, c) == [j \in DOMAIN row |-> RQuot(row[j], row[c])]
ClearColumn(m, r, c, pivot) ==
    [i \in DOMAIN m |->
        IF i = r THEN pivot
        ELSE [j \in DOMAIN pivot |-> RSub(m[i][j], RMul(m[i][c], pivot[j]))]]
ReduceAt(m, r, c) == ClearColumn(m, r, c, ScaleRow(m[r], c))
RECURSIVE Reduce(_, _, _)
Reduce(m, r, c) ==
    IF r > Len(m) \/ c > Len(m) THEN m
    ELSE IF PivotRow(m, r, c) = 0 THEN Reduce(m, r, c + 1)
    ELSE CHOOSE reduced \in
             {Reduce(next, r + 1, c + 1) :
                 next \in {ReduceAt(SwapRows(m, r, PivotRow(m, r, c)), r, c)}} : TRUE
\* the column of the first entry of a row of the reduced matrix (0: none),
\* and the solution it gives: the unknowns without a row of their own are 0
Leading(row) ==
    IF \E j \in 1..(Len(row) - 1) : row[j][1] # 0
    THEN CHOOSE j \in 1..(Len(row) - 1) :
             row[j][1] # 0 /\ \A k \in 1..(j - 1) : row[k][1] = 0
    ELSE 0
SolutionOf(reduced) ==
    [c \in DOMAIN reduced |->
        IF \E i \in DOMAIN reduced : Leading(reduced[i]) = c
        THEN reduced[CHOOSE i \in DOMAIN reduced : Leading(reduced[i]) = c]
                    [Len(reduced) + 1]
        ELSE Rat(0)]
\* a solution u of g g u = v; g u is then the solution of g w = v of
\* smallest norm, the one in the row space of the centred features
SmallestNormSolution(g, v) ==
    CHOOSE w \in
        {MatVec(g, u) :
            u \in {SolutionOf(reduced) :
                      reduced \in {Reduce(system, 1, 1) :
                                     system \in {Augmented(MatMul(g, g), v)}}}} : TRUE

\* coef_: the least-squares solution of smallest norm for the centred
\* features and target
Coefficients(monthly_data) ==
    CHOOSE w \in
        {SmallestNormSolution(g, v) :
            g \in {Gram(monthly_data)}, v \in {Moments(monthly_data)}} : TRUE

\* Variant: the fit knows that a point of unemployment costs 1000 sales.
LinearFitAssumedSlope(monthly_data) ==
    [coef |-> [c \in DOMAIN Exogenous |-> IF c = 1 THEN Rat(-1000) ELSE Rat(0)],
     intercept |-> RAdd(RMean(Column(monthly_data, "sales")),
                        RMul(Rat(1000), RMean(Column(monthly_data, "unemployment"))))]

\* the fit with coefficients coef: intercept_ = mean(y) - mean(X) . coef_
FitWith(monthly_data, coef) ==
    [coef |-> coef,
     intercept |->
        RSub(RMean(Column(monthly_data, "sales")),
             RSum(Rows([c \in DOMAIN Exogenous |->
                 RMul(coef[c], RMean(Column(monthly_data, Exogenous[c])))])))]

\* self.model.fit(X, y)
LinearFit(monthly_data) ==
    CHOOSE fit \in
        {FitWith(monthly_data, coef) : coef \in {Coefficients(monthly_data)}} : TRUE

\* self.model.predict(features)[0]: intercept_ + features . coef_
LinearPredict(fit, features) ==
    RAdd(fit.intercept,
         RSum(Rows([c \in DOMAIN Exogenous |-> RMul(fit.coef[c], features[c])])))

\* features = np.array([[unemployment, gas_price, cpi, search_volume]]) of
\* the iteration for future_dates[k]
FeaturesOfStep(last_values, mods, k) ==
    << Project(last_values.unemployment, mods.unemployment, TimeFactor(k - 1)),
       Project(last_values.gas_price, mods.gas_price, TimeFactor(k - 1)),
       Project(last_values.cpi_all, mods.cpi, TimeFactor(k - 1)),
       Project(last_values.search_volume, mods.search_volume, TimeFactor(k - 1)) >>

\* what the fitted linear backend of engine e predicts in each iteration of
\* forecast(rows, mods, months_ahead); of no account when e was not fitted
\* or there are no rows, the call raising before predict returns
PredictionsOf(e, rows, mods, months_ahead) ==
    IF e.fitted /\ rows # <<>>
    THEN CHOOSE predictions \in
             {[k \in 1..months_ahead |->
                  LinearPredict(fit, FeaturesOfStep(monthly_data[Len(monthly_data)],
                                                    mods, k))] :
                 fit \in {LinearFit(e.training_data.value)},
                 monthly_data \in {AggregateMonthly(rows)}} : TRUE
    ELSE [k \in 1..months_ahead |-> NaN]

(***************************************************************************)
(* The linear engine on a history of FitMonths months, one record a month, *)
(* whose sales follow unemployment.                                        *)
(***************************************************************************)
FitMonths == 12
\* unemployment month by month: level, every month; two levels in turn;
\* one level in the first half and another in the second
UnemploymentSeries ==
    { [k \in 1..FitMonths |-> 5],
      [k \in 1..FitMonths |-> 7],
      [k \in 1..FitMonths |-> IF k % 2 = 0 THEN 4 ELSE 6],
      [k \in 1..FitMonths |-> IF 2 * k <= FitMonths THEN 4 ELSE 6] }
\* sales = base + slope * unemployment
SalesLaws == {[base |-> 20000, slope |-> -1000], [base |-> 10000, slope |-> 500]}
\* gas_price month by month: level; two levels in a turn of its own; two
\* below unemployment, moving with it
GasPriceCourses == {"level", "own", "unemployment"}
GasPriceIn(course, series, k) ==
    CASE course = "level" -> 3
      [] course = "own" -> IF k % 4 < 2 THEN 3 ELSE 4
      [] course = "unemployment" -> series[k] - 2
FitHistory(series, law, course) ==
    Rows([k \in 1..FitMonths |->
        MakeRecord(GenDate(k - 1), law.base + law.slope * series[k],
                   [ProfileA EXCEPT !.unemployment = Rat(series[k]),
                                    !.gas_price = Rat(GasPriceIn(course, series, k))])])
FitHistories ==
    {FitHistory(series, law, course) :
        series \in UnemploymentSeries, law \in SalesLaws, course \in GasPriceCourses}
FitRequests ==
    {[mods |-> [Ones EXCEPT !.unemployment = m], months_ahead |-> n]
        : m \in {<<1, 2>>, <<1, 1>>, <<2, 1>>}, n \in {1, 2}}

InitFit ==
    /\ data \in FitHistories
    /\ monthly = Pending
    /\ remonthly = Pending
    /\ built = Returned([model_type |-> "linear", out |-> Construct("linear").out])
    /\ engine = Construct("linear").engine
    /\ call \in FitRequests
    /\ trained = Pending
    /\ ret = Pending
    /\ steps = <<>>
    /\ dash = None
    /\ event = None
    /\ lib = None

\* engine.forecast(data, modifiers, months_ahead), the backend predicting
\* what it was fitted to
ForecastFitted ==
    /\ built.value.out.ok
    /\ \E raws \in {PredictionsOf(engine, data, call.mods, call.months_ahead)} :
          \E r \in {ForecastCall(engine, data, call.mods, call.months_ahead, raws)} :
              /\ ret' = Returned(r.out)
              /\ steps' = r.steps
    /\ data' = InputAfterForecast(data)
    /\ UNCHANGED <<monthly, remonthly, engine, call, trained, built, dash, event, lib>>

NextFit == Train \/ ForecastFitted

SpecFit == InitFit /\ [][NextFit]_vars

(***************************************************************************)
(* DashboardState (state.py): the values the event handlers receive, the   *)
(* data set, the three steps filter_data / train_model / generate_forecast *)
(* and the handlers.                                                       *)
(***************************************************************************)
\* Python values of the handlers' arguments
PyStr(s) == [type |-> "str", s |-> s]
PyList(items) == [type |-> "list", items |-> items]
PyNum(x) == [type |-> "float", value |-> x]
\* a str given by its characters
PyChars(chars) == [type |-> "str", chars |-> chars]
PyNone == [type |-> "NoneType"]

\* bool(v): None, the empty str, the empty list and the number 0 are
\* false; every other number, NaN included, is true
Truthy(v) ==
    CASE v.type = "NoneType" -> FALSE
      [] v.type = "str" -> IF "chars" \in DOMAIN v THEN v.chars # <<>> ELSE v.s # ""
      [] v.type = "list" -> v.items # <<>>
      [] v.type = "float" -> IsNaN(v.value) \/ v.value[1] # 0

\* A str is given by the code points of its characters ("2020" is
\* <<50, 48, 50, 48>>).  int() reads every character with the Unicode
\* property "decimal digit" as a digit; in the Unicode data of CPython 3.11
\* (14.0.0) these are 66 runs of ten code points, each from its zero up.
\* DigitZeros holds the zeros (48 is "0", 1632 the Arabic-Indic zero,
\* 65296 the fullwidth zero).
DigitZeros ==
    {48, 1632, 1776, 1984, 2406, 2534, 2662, 2790, 2918, 3046, 3174, 3302,
     3430, 3558, 3664, 3792, 3872, 4160, 4240, 6112, 6160, 6470, 6608,
     6784, 6800, 6992, 7088, 7232, 7248, 42528, 43216, 43264, 43472, 43504,
     43600, 44016, 65296, 66720, 68912, 69734, 69872, 69942, 70096, 70384,
     70736, 70864, 71248, 71360, 71472, 71904, 72016, 72784, 73040, 73120,
     92768, 92864, 93008, 120782, 120792, 120802, 120812, 120822, 123200,
     123632, 125264, 130032}
IsDigit(c) == \E z \in DigitZeros : z <= c /\ c <= z + 9
DigitValue(c) == c - (CHOOSE z \in DigitZeros : z <= c /\ c <= z + 9)
\* the characters int() drops around a numeral: the ASCII ones of C's
\* isspace (tab to carriage return, the space) and the Unicode spaces
\* beyond ASCII; the separators 28..31, which str.isspace() holds of, are
\* not dropped
Whitespace ==
    (9..13) \cup {32, 133, 160, 5760} \cup (8192..8202)
            \cup {8232, 8233, 8239, 8287, 12288}
RECURSIVE LStrip(_)
LStrip(chars) ==
    IF chars # <<>> /\ chars[1] \in Whitespace THEN LStrip(Tail(chars)) ELSE chars
RECURSIVE RStrip(_)
RStrip(chars) ==
    IF chars # <<>> /\ chars[Len(chars)] \in Whitespace
    THEN RStrip(SubSeq(chars, 1, Len(chars) - 1)) ELSE chars
RECURSIVE IntOfDigits(_)
IntOfDigits(chars) ==
    IF chars = <<>> THEN 0
    ELSE 10 * IntOfDigits(SubSeq(chars, 1, Len(chars) - 1))
            + DigitValue(chars[Len(chars)])
\* digits, with single underscores (95) between two digits; of digits, the
\* leading zeros included, no more than sys.get_int_max_str_digits(), which
\* is 4300 unless the interpreter was started with another limit
IsNumeralBody(chars) ==
    /\ chars # <<>>
    /\ \A k \in DOMAIN chars :
          \/ IsDigit(chars[k])
          \/ /\ chars[k] = 95
             /\ 1 < k /\ k < Len(chars)
             /\ IsDigit(chars[k - 1]) /\ IsDigit(chars[k + 1])
    /\ Len(SelectSeq(chars, IsDigit)) <= 4300
\* int(y) of a str, base 10: whitespace around the numeral is dropped, one
\* sign ("+" is 43, "-" is 45) may lead it, its digits may be grouped by
\* underscores; anything else, and a numeral of more digits than the limit,
\* raises ValueError.  (Python's integers have no width; those of the model
\* are TLC's, so a year beyond 2^31 - 1 is not modelled.)
IsSigned(stripped) == stripped # <<>> /\ stripped[1] \in {43, 45}
\* the digits from the first that is not a zero on: leading zeros add
\* nothing to the number
Significant(digits) ==
    LET nonzero == {k \in DOMAIN digits : DigitValue(digits[k]) # 0}
    IN  IF nonzero = {} THEN <<>>
        ELSE SubSeq(digits, CHOOSE k \in nonzero : \A j \in nonzero : k <= j,
                    Len(digits))
IntOfNumeral(stripped, body) ==
    IF IsNumeralBody(body)
    THEN Value(IF stripped[1] = 45
               THEN -IntOfDigits(Significant(SelectSeq(body, IsDigit)))
               ELSE IntOfDigits(Significant(SelectSeq(body, IsDigit))))
    ELSE Raised("ValueError")
IntOfStripped(stripped) ==
    IntOfNumeral(stripped, IF IsSigned(stripped) THEN Tail(stripped) ELSE stripped)
IntOfStr(chars) == IntOfStripped(RStrip(LStrip(chars)))

\* float(value) of a number keeps its value; int(value) drops the fraction
\* (towards zero)
FloatOf(x) == Norm(x[1], x[2])
IntOf(x) == IF x[1] >= 0 THEN x[1] \div x[2] ELSE -((-x[1]) \div x[2])

\* "if isinstance(value, list) and len(value) > 0: value = value[0]",
\* the argument being a number or a list of one
FirstIfList(v) == IF v.type = "list" /\ Len(v.items) > 0 THEN v.items[1] ELSE v.value

\* a row of the data set: a record of generate_sample_data with its index
\* label in df
SalesRow(index, date, sales, p, region, state, vehicle_type, make, model, model_year) ==
    [index |-> index, date |-> date, sales |-> Rat(sales),
     unemployment |-> p.unemployment, gas_price |-> p.gas_price,
     cpi_all |-> p.cpi_all, search_volume |-> p.search_volume,
     region |-> region, state |-> state, vehicle_type |-> vehicle_type,
     make |-> make, model |-> model, model_year |-> model_year]

\* df: four rows of 2015-01-01 (two), 2015-01-31 and 2015-10-28
SampleData ==
    << SalesRow(0, GenDate(0), 100, ProfileA, "North", "NY", "Sedan", "Toyota", "Camry", 2020),
       SalesRow(1, GenDate(0), 250, ProfileB, "South", "TX", "SUV", "Toyota", "RAV4", 2021),
       SalesRow(2, GenDate(1), 250, ProfileB, "North", "NY", "SUV", "Honda", "CR-V", 2020),
       SalesRow(3, GenDate(10), 100, ProfileA, "South", "FL", "Truck", "Ford", "F-150", 2023) >>

\* the same rows read from a CSV file in which the unemployment of the
\* first row is missing
SampleDataWithMissing ==
    [SampleData EXCEPT ![1].unemployment = NaN]

\* the same rows read from a CSV file with a date that read_csv cannot
\* parse: the column date stays of dtype object
SampleDataUnparsedDates ==
    WithColumn(SampleData, "date_dtype", [k \in DOMAIN SampleData |-> "object"])

Datasets == {SampleData, SampleDataWithMissing, SampleDataUnparsedDates}

\* frame.to_dict("records"): one dict per row, the columns only
ToDictRecords(frame) ==
    Rows([k \in 1..Len(frame) |->
        [c \in (DOMAIN frame[k]) \ {"index", "date_dtype"} |-> frame[k][c]]])

\* column.isin(selection)
IsIn(x, selection) == \E k \in DOMAIN selection.items : selection.items[k] = x

\* "if self.selected_X: filtered = filtered[filtered[col].isin(self.selected_X)]"
Restrict(frame, col, selection) ==
    IF Truthy(selection)
    THEN SelectSeq(frame, LAMBDA r : IsIn(r[col], selection))
    ELSE frame

\* what a step of a handler did: the object afterwards, the engine
\* operations it ran in order, and the exception that left it (None: none)
Step(d, trace, raised) == [d |-> d, trace |-> trace, raised |-> raised]

\* the default horizon, and the sales the backend predicts in the k-th
\* iteration of a forecast call: in turn the two values of RawPredictions,
\* the positive one first
DefaultMonths == 6
Oracles ==
    {[k \in 1..DefaultMonths |-> IF k % 2 = 1 THEN Rat(1000) ELSE Rat(-300)]}

\* The private attributes _filtered_df and _forecast_df are declared with
\* pydantic's PrivateAttr (lines 30-31), and setup.py pins neither reflex nor
\* pydantic.  Under pydantic 1 a new object holds their defaults, df and an
\* empty frame; under pydantic 2 it holds the two ModelPrivateAttr
\* descriptors, which are no DataFrame, until a handler assigns a frame.
\* An attribute is modelled by the class of its value and, for a frame, its
\* rows (no rows otherwise).
PydanticBuilds == {"pydantic<2", "pydantic>=2"}
PrivateAttrClass(build) == IF build = "pydantic<2" THEN "DataFrame" ELSE "ModelPrivateAttr"

\* "isinstance(x, pd.DataFrame) and not x.empty" of the two attributes
HasFiltered(d) == d.filtered_df_class = "DataFrame" /\ d.filtered_df # <<>>
HasForecast(d) == d.forecast_df_class = "DataFrame" /\ d.forecast_df # <<>>

\* the class attributes of DashboardState, and __init__: an engine with the
\* linear backend, not trained
NewDashboardState(df, build) ==
    [filtered_data |-> ToDictRecords(df),
     forecast_data |-> <<>>,
     filtered_df |-> IF build = "pydantic<2" THEN df ELSE <<>>,
     filtered_df_class |-> PrivateAttrClass(build),
     forecast_df |-> <<>>,
     forecast_df_class |-> PrivateAttrClass(build),
     selected_regions |-> PyList(<<>>),
     selected_states |-> PyList(<<>>),
     selected_vehicle_types |-> PyList(<<>>),
     selected_makes |-> PyList(<<>>),
     selected_models |-> PyList(<<>>),
     selected_years |-> PyList(<<>>),
     model_type |-> "Linear Regression",
     scenario_engine |-> Construct("linear").engine,
     unemployment_modifier |-> Rat(1),
     gas_price_modifier |-> Rat(1),
     cpi_modifier |-> Rat(1),
     search_volume_modifier |-> Rat(1),
     forecast_months |-> DefaultMonths,
     show_table |-> FALSE,
     active_tab |-> "sales"]

\* Variant: a row is kept when it matches one of the selections made.
FilterRowsAny(df, d) ==
    LET cols == <<"region", "state", "vehicle_type", "make", "model", "model_year">>
        sels == <<d.selected_regions, d.selected_states, d.selected_vehicle_types,
                  d.selected_makes, d.selected_models, d.selected_years>>
    IN  IF \A k \in DOMAIN sels : ~Truthy(sels[k]) THEN df
        ELSE SelectSeq(df, LAMBDA r :
                 \E k \in DOMAIN sels : Truthy(sels[k]) /\ IsIn(r[cols[k]], sels[k]))

\* the rows of df that filter_data keeps
FilterRows(df, d) ==
    LET by_region == Restrict(df, "region", d.selected_regions)
        by_state == Restrict(by_region, "state", d.selected_states)
        by_vehicle_type == Restrict(by_state, "vehicle_type", d.selected_vehicle_types)
        by_make == Restrict(by_vehicle_type, "make", d.selected_makes)
        by_model == Restrict(by_make, "model", d.selected_models)
    IN  Restrict(by_model, "model_year", d.selected_years)

\* "first(); second()": what second did to the object first left counts
\* unless first raised
Then(first, second) ==
    IF first.raised # None THEN first
    ELSE Step(second.d, first.trace \o second.trace, second.raised)

\* Variant: the label is handed to the constructor as it is, but for the
\* linear one.
BackendOfVerbatim(label) == IF label = "Linear Regression" THEN "linear" ELSE label

\* "model_type = 'linear' if self.model_type == 'Linear Regression' else 'forest'"
BackendOf(label) == IF label = "Linear Regression" THEN "linear" ELSE "forest"

\* what train_model makes of the outcome r of train(self._filtered_df): of
\* what train raises only AttributeError is caught; _filtered_df is the
\* frame passed in, as train left it
TrainOutcome(d, r) ==
    IF r.out.ok \/ r.out.error = "AttributeError"
    THEN Step([d EXCEPT !.scenario_engine = r.engine,
                        !.filtered_df = InputAfterTrain(d.filtered_df)],
              <<"ScenarioEngine", "train">>, None)
    ELSE Step([d EXCEPT !.scenario_engine = r.engine,
                        !.filtered_df = InputAfterTrain(d.filtered_df)],
              <<"ScenarioEngine", "train">>, r.out.error)

\* train_model from the constructor's outcome c on (line 107): what the
\* constructor raises is outside the try and leaves train_model, the
\* session's engine as it was; else the new engine replaces the session's
\* and is trained when there are filtered records
TrainModelWith(d, c) ==
    IF ~c.out.ok
    THEN Step(d, <<"ScenarioEngine">>, c.out.error)
    ELSE IF HasFiltered(d)
    THEN TrainOutcome(d, TrainEngine(c.engine, d.filtered_df))
    ELSE Step([d EXCEPT !.scenario_engine = c.engine], <<"ScenarioEngine">>, None)

\* Variant: the engine is kept when no record is selected.
train_model_keeping(d) ==
    IF HasFiltered(d)
    THEN TrainModelWith(d, Construct(BackendOf(d.model_type)))
    ELSE Step(d, <<>>, None)

\* train_model: an engine of the backend the label selects is constructed
train_model(d) == TrainModelWith(d, Construct(BackendOf(d.model_type)))

\* what generate_forecast makes of the outcome r of
\* forecast(self._filtered_df, ...): the series, or nothing when forecast
\* raised; _filtered_df is the frame passed in, as forecast left it
ForecastOutcome(d, r) ==
    IF r.out.ok
    THEN Step([d EXCEPT !.forecast_df = r.out.value,
                        !.forecast_df_class = "DataFrame",
                        !.forecast_data = ToDictRecords(r.out.value),
                        !.filtered_df = InputAfterForecast(d.filtered_df)],
              <<"forecast">>, None)
    ELSE Step([d EXCEPT !.forecast_df = <<>>, !.forecast_df_class = "DataFrame",
                        !.forecast_data = <<>>,
                        !.filtered_df = InputAfterForecast(d.filtered_df)],
              <<"forecast">>, None)

\* the four modifiers of the session
ModifiersOf(d) ==
    [unemployment |-> d.unemployment_modifier,
     gas_price |-> d.gas_price_modifier,
     cpi |-> d.cpi_modifier,
     search_volume |-> d.search_volume_modifier]

\* Variant: the previous forecast is kept when no record is selected.
generate_forecast_keeping(d) ==
    IF HasFiltered(d)
    THEN ForecastOutcome(d, ForecastCall(d.scenario_engine, d.filtered_df,
                                         ModifiersOf(d), d.forecast_months, call.raws))
    ELSE Step(d, <<>>, None)

\* generate_forecast: the engine's forecast of the filtered records, or
\* nothing when there are none
generate_forecast(d) ==
    IF HasFiltered(d)
    THEN ForecastOutcome(d, ForecastCall(d.scenario_engine, d.filtered_df,
                                         ModifiersOf(d), d.forecast_months, call.raws))
    ELSE Step([d EXCEPT !.forecast_df = <<>>, !.forecast_df_class = "DataFrame",
                        !.forecast_data = <<>>], <<>>, None)

\* "...; self.train_model()" and "...; self.generate_forecast()" after the
\* steps so far
ThenTrain(so_far) == Then(so_far, train_model(so_far.d))
ThenForecast(so_far) == Then(so_far, generate_forecast(so_far.d))

\* "self._filtered_df = filtered; self.filtered_data = filtered.to_dict('records')"
SetFiltered(d, filtered) ==
    [d EXCEPT !.filtered_df = filtered, !.filtered_df_class = "DataFrame",
              !.filtered_data = ToDictRecords(filtered)]

\* Variant: the forecast is generated before the model is trained.
filter_data_forecast_first(d) ==
    ThenTrain(ThenForecast(Step(SetFiltered(d, FilterRows(data, d)), <<>>, None)))

\* filter_data: the selections applied to df, then train_model and
\* generate_forecast
filter_data(d) ==
    ThenForecast(ThenTrain(Step(SetFiltered(d, FilterRows(data, d)), <<>>, None)))

(***************************************************************************)
(* The dashboard session as a state machine: one action per event handler, *)
(* MaxCalls events in a session.                                           *)
(***************************************************************************)
\* what the controls send (components/controls.py): a selection as a list,
\* a single str, or None, the empty str or the empty list when it is
\* cleared; years as a list of the numerals offered or a single str; slider
\* values as a number or a list of one number
RegionArgs == {PyStr("North"), PyList(<<"West">>), PyNone}
StateArgs == {PyStr("")}
VehicleTypeArgs == {PyList(<<"SUV">>)}
MakeArgs == {PyStr("Toyota")}
ModelArgs == {PyList(<<>>)}
YearArgs ==
    {PyList(<< <<50, 48, 50, 49>>, <<50, 48, 50, 51>> >>),    \* ["2021", "2023"]
     PyList(<< <<50, 48, 50, 48>>, <<50, 48, 120, 120>> >>),  \* ["2020", "20xx"]
     PyChars(<<50, 48, 50, 48>>),                             \* "2020"
     PyNum(Rat(2020))}
ModifierArgs == {PyNum(Rat(2))}
GasPriceArgs == {PyList(<< <<1, 2>> >>)}
CpiArgs == {PyNum(Rat(2))}
SearchVolumeArgs == {PyList(<< <<1, 2>> >>)}
MonthArgs == {PyNum(Rat(0)), PyList(<< <<5, 2>> >>)}
ModelTypeLabels == {"Linear Regression", "Random Forest", "linear"}
\* a tab of the two pages (pages/index.py, pages/fixed_tabs.py)
TabArgs == {"vehicles"}

\* The vars of the state class (lines 26-54) and a value of its type for
\* each.  For every var the framework adds an event handler set_<var> to
\* the class, which assigns the var and runs nothing else.
GeneratedSetters ==
    << [handler |-> "set_filtered_data", var |-> "filtered_data", value |-> <<>>],
       [handler |-> "set_forecast_data", var |-> "forecast_data", value |-> <<>>],
       [handler |-> "set_selected_regions", var |-> "selected_regions",
        value |-> PyList(<<"West">>)],
       [handler |-> "set_selected_states", var |-> "selected_states",
        value |-> PyList(<<"TX">>)],
       [handler |-> "set_selected_vehicle_types", var |-> "selected_vehicle_types",
        value |-> PyList(<<"Truck">>)],
       [handler |-> "set_selected_makes", var |-> "selected_makes",
        value |-> PyList(<<"Honda">>)],
       [handler |-> "set_selected_models", var |-> "selected_models",
        value |-> PyList(<<"Camry", "RAV4">>)],
       [handler |-> "set_selected_years", var |-> "selected_years",
        value |-> PyList(<<2021>>)],
       [handler |-> "set_model_type", var |-> "model_type", value |-> "Random Forest"],
       [handler |-> "set_unemployment_modifier", var |-> "unemployment_modifier",
        value |-> <<3, 2>>],
       [handler |-> "set_gas_price_modifier", var |-> "gas_price_modifier",
        value |-> <<1, 2>>],
       [handler |-> "set_cpi_modifier", var |-> "cpi_modifier", value |-> Rat(2)],
       [handler |-> "set_search_volume_modifier", var |-> "search_volume_modifier",
        value |-> Rat(3)],
       [handler |-> "set_forecast_months", var |-> "forecast_months", value |-> 3],
       [handler |-> "set_show_table", var |-> "show_table", value |-> TRUE] >>

\* Init: DashboardState() on one of the data sets.  The scikit-learn build
\* matters to a session only through missing values, so it is chosen for
\* the data set that holds one.
InitDash ==
    /\ data \in Datasets
    /\ lib \in (IF HasMissing(data) THEN SklearnBuilds ELSE {None})
    /\ call \in {[raws |-> o] : o \in Oracles}
    /\ \E build \in PydanticBuilds :
          /\ dash = NewDashboardState(data, build)
          /\ event = [name |-> "__init__", calls |-> 0, trace |-> <<"ScenarioEngine">>,
                      raised |-> None, before |-> NewDashboardState(data, build)]
    /\ monthly = Pending
    /\ remonthly = Pending
    /\ engine = NoEngine
    /\ trained = Pending
    /\ ret = Pending
    /\ steps = <<>>
    /\ built = Pending

\* the handlers whose first step is filter_data
RunsFilterData ==
    {"on_load", "filter_data", "update_regions", "update_states",
     "update_vehicle_types", "update_makes", "update_models", "update_years",
     "update_active_tab"}

\* filter_data, lines 70-96: "filtered = df.copy()", "filtered =
\* filtered[...]" for the selections made, "self._filtered_df = filtered"
FilterStatements ==
    << New("filtered"), New("filtered"), Alias("_filtered_df", "filtered") >>

\* "self._scenario_engine.train(self._filtered_df)" and
\* "self._scenario_engine.forecast(self._filtered_df, ...)" for the engine
\* operations a handler ran
RECURSIVE EngineStatements(_)
EngineStatements(trace) ==
    IF trace = <<>> THEN <<>>
    ELSE (CASE Head(trace) = "train" ->
                   <<Alias("data", "_filtered_df")>> \o TrainStatements
            [] Head(trace) = "forecast" ->
                   <<Alias("data", "_filtered_df")>> \o ForecastStatements
            [] OTHER -> <<>>)
         \o EngineStatements(Tail(trace))

\* df as a handler leaves it.  When the handler starts, df is the only name
\* bound to the data set: _filtered_df is pydantic's copy of the default or
\* a frame that filter_data made.
DfAfter(name, trace, df) ==
    Exec((IF name \in RunsFilterData THEN FilterStatements ELSE <<>>)
             \o EngineStatements(trace),
         {"df"}, df)

\* an event handler runs: the object is what its steps left, also when an
\* exception left the handler
Handle(name, step) ==
    /\ event.calls < MaxCalls
    /\ dash' = step.d
    /\ data' = DfAfter(name, step.trace, data)
    /\ event' = [name |-> name, calls |-> event.calls + 1, trace |-> step.trace,
                 raised |-> step.raised, before |-> dash]
    /\ UNCHANGED <<monthly, remonthly, engine, call, trained, ret, steps,
                   built, lib>>

\* the same, the argument the handler was called with kept with the event
HandleArg(name, arg, step) ==
    /\ event.calls < MaxCalls
    /\ dash' = step.d
    /\ data' = DfAfter(name, step.trace, data)
    /\ event' = [name |-> name, calls |-> event.calls + 1, trace |-> step.trace,
                 raised |-> step.raised, before |-> dash, arg |-> arg]
    /\ UNCHANGED <<monthly, remonthly, engine, call, trained, ret, steps,
                   built, lib>>

\* "if x and isinstance(x, str): self.selected = [x] else: self.selected = x"
Selection(x) == IF Truthy(x) /\ x.type = "str" THEN PyList(<<x.s>>) ELSE x

\* "for y in years": the items of a list, the characters of a str, each a
\* str of its own; a number is not iterable
ItemsOf(years) ==
    CASE years.type = "list" -> Value(years.items)
      [] years.type = "str" -> Value([k \in DOMAIN years.chars |-> <<years.chars[k]>>])
      [] OTHER -> Raised("TypeError")

\* [int(y) for y in items]
ConvertYears(items) == [k \in DOMAIN items |-> IntOfStr(items[k])]

\* the list of the years converted, or the empty list of the except branch
\* when a conversion raised
SelectionOf(converted) ==
    IF \A k \in DOMAIN converted : converted[k].ok
    THEN PyList(Rows([k \in DOMAIN converted |-> converted[k].value]))
    ELSE PyList(<<>>)

\* "try: self.selected_years = [int(y) for y in years]
\*  except Exception: self.selected_years = []": iterating a number raises
\* TypeError, int() of a str that is no numeral ValueError
YearSelection(years) ==
    IF ~ItemsOf(years).ok THEN PyList(<<>>)
    ELSE SelectionOf(ConvertYears(ItemsOf(years).value))

on_load ==
    Handle("on_load", ThenForecast(ThenTrain(filter_data(dash))))

\* filter_data, train_model and generate_forecast are public methods of the
\* state class, so each is an event handler of its own as well as a step of
\* the handlers below
call_filter_data == Handle("filter_data", filter_data(dash))
call_train_model == Handle("train_model", train_model(dash))
call_generate_forecast == Handle("generate_forecast", generate_forecast(dash))

update_regions ==
    \E regions \in RegionArgs :
        Handle("update_regions",
               filter_data([dash EXCEPT !.selected_regions = Selection(regions)]))

update_states ==
    \E states \in StateArgs :
        Handle("update_states",
               filter_data([dash EXCEPT !.selected_states = Selection(states)]))

update_vehicle_types ==
    \E types \in VehicleTypeArgs :
        Handle("update_vehicle_types",
               filter_data([dash EXCEPT !.selected_vehicle_types = Selection(types)]))

update_makes ==
    \E makes \in MakeArgs :
        Handle("update_makes",
               filter_data([dash EXCEPT !.selected_makes = Selection(makes)]))

update_models ==
    \E models \in ModelArgs :
        Handle("update_models",
               filter_data([dash EXCEPT !.selected_models = Selection(models)]))

update_years ==
    \E years \in YearArgs :
        HandleArg("update_years", years,
                  filter_data([dash EXCEPT !.selected_years = YearSelection(years)]))

update_unemployment ==
    \E value \in ModifierArgs :
        Handle("update_unemployment",
               generate_forecast([dash EXCEPT
                   !.unemployment_modifier = FloatOf(FirstIfList(value))]))

\* Variant: the handler filters and trains again.
update_gas_price_refiltering ==
    \E value \in GasPriceArgs :
        Handle("update_gas_price",
               filter_data([dash EXCEPT
                   !.gas_price_modifier = FloatOf(FirstIfList(value))]))

update_gas_price ==
    \E value \in GasPriceArgs :
        Handle("update_gas_price",
               generate_forecast([dash EXCEPT
                   !.gas_price_modifier = FloatOf(FirstIfList(value))]))

update_cpi ==
    \E value \in CpiArgs :
        Handle("update_cpi",
               generate_forecast([dash EXCEPT
                   !.cpi_modifier = FloatOf(FirstIfList(value))]))

update_search_volume ==
    \E value \in SearchVolumeArgs :
        Handle("update_search_volume",
               generate_forecast([dash EXCEPT
                   !.search_volume_modifier = FloatOf(FirstIfList(value))]))

update_forecast_months ==
    \E value \in MonthArgs :
        Handle("update_forecast_months",
               generate_forecast([dash EXCEPT
                   !.forecast_months = IntOf(FirstIfList(value))]))

update_model_type ==
    \E value \in ModelTypeLabels :
        Handle("update_model_type",
               ThenForecast(train_model([dash EXCEPT !.model_type = value])))

update_active_tab ==
    \E tab \in TabArgs :
        Handle("update_active_tab", filter_data([dash EXCEPT !.active_tab = tab]))

\* set_active_tab, the setter the framework gives the var active_tab and
\* the tabs of pages/index.py call: the var is assigned, nothing else runs
set_active_tab ==
    \E tab \in TabArgs :
        Handle("set_active_tab", Step([dash EXCEPT !.active_tab = tab], <<>>, None))

\* the setters of the other vars: set_selected_regions, set_model_type,
\* set_forecast_months, ...
set_base_var ==
    \E k \in DOMAIN GeneratedSetters :
        Handle(GeneratedSetters[k].handler,
               Step([dash EXCEPT ![GeneratedSetters[k].var] = GeneratedSetters[k].value],
                    <<>>, None))

\* Variant: the handler refreshes the data as update_active_tab does.
toggle_table_refreshing ==
    \E value \in BOOLEAN :
        Handle("toggle_table", filter_data([dash EXCEPT !.show_table = value]))

toggle_table ==
    \E value \in BOOLEAN :
        Handle("toggle_table", Step([dash EXCEPT !.show_table = value], <<>>, None))

NextDash ==
    \/ on_load \/ call_filter_data \/ call_train_model \/ call_generate_forecast
    \/ update_regions \/ update_states \/ update_vehicle_types
    \/ update_makes \/ update_models \/ update_years
    \/ update_unemployment \/ update_gas_price \/ update_cpi
    \/ update_search_volume \/ update_forecast_months
    \/ update_model_type \/ update_active_tab \/ toggle_table
    \/ set_active_tab \/ set_base_var

SpecDash == InitDash /\ [][NextDash]_vars

(***************************************************************************)
(* The charts.  A figure is modelled by its traces, each by its type, and  *)
(* by the title of its layout; the points of the traces are left out.  A   *)
(* dict is modelled by its items, {} having none.                          *)
(***************************************************************************)
EmptyDict == [type |-> "dict", items |-> <<>>]
\* a plotly Figure with these traces and this title
Figure(traces, title) ==
    [type |-> "Figure", data |-> traces, layout |-> [title |-> title]]
\* Variant: the dict holds the traces only.
FigureToDictDataOnly(fig) ==
    [type |-> "dict", items |-> [data |-> fig.data]]

\* fig.to_dict()
FigureToDict(fig) ==
    [type |-> "dict", items |-> [data |-> fig.data, layout |-> fig.layout]]
\* n traces of one type
Traces(type, n) == Rows([k \in 1..n |-> type])
\* the groups of frame.groupby(col)
ColumnValues(frame, col) == {frame[k][col] : k \in DOMAIN frame}

\* the traces create_sales_trend_chart adds: the rows not flagged and the
\* flagged rows, each when there are some; all rows when the frame has no
\* is_forecast column
SalesTrendTraces(frame) ==
    IF "is_forecast" \in DOMAIN frame[1]
    THEN Traces("scatter",
                (IF \E k \in DOMAIN frame : ~frame[k].is_forecast THEN 1 ELSE 0)
                + (IF \E k \in DOMAIN frame : frame[k].is_forecast THEN 1 ELSE 0))
    ELSE Traces("scatter", 1)

\* create_sales_trend_chart(forecast_data) of a DataFrame: the chart, and
\* the frame as the call leaves it ("forecast_data['x_index'] =
\* range(len(forecast_data))" is an assignment on the caller's frame)
create_sales_trend_chart(forecast_data) ==
    IF forecast_data = <<>>
    THEN [frame |-> forecast_data, chart |-> EmptyDict]
    ELSE [frame |-> WithColumn(forecast_data, "x_index",
                               [k \in 1..Len(forecast_data) |-> k - 1]),
          chart |-> FigureToDict(Figure(SalesTrendTraces(forecast_data),
                                        "Sales Trend and Forecast"))]

create_vehicle_type_chart(filtered_data) ==
    IF filtered_data = <<>> THEN EmptyDict
    ELSE FigureToDict(Figure(Traces("pie", 1), "Sales by Vehicle Type"))

\* px.bar(..., color='region'): one bar trace per region
create_region_chart(filtered_data) ==
    IF filtered_data = <<>> THEN EmptyDict
    ELSE FigureToDict(Figure(
             Traces("bar", Cardinality(ColumnValues(filtered_data, "region"))),
             "Sales by Region"))

\* one line per exogenous variable
create_exogenous_impact_chart(forecast_data) ==
    IF forecast_data = <<>> THEN EmptyDict
    ELSE FigureToDict(Figure(Traces("scatter", Len(Exogenous)),
                             "Exogenous Variable Trends"))

\* the (make, model) groups and the sales of each
MakeModels(frame) == {<<frame[k].make, frame[k].model>> : k \in DOMAIN frame}
SalesOf(frame, pair) ==
    SumCol(SelectSeq(frame, LAMBDA r : <<r.make, r.model>> = pair), "sales")
\* what sort_values('sales', ascending=False).head(10) can keep: all
\* groups when there are no more than ten, else ten that none of the others
\* outsells.  The sort is not stable, so which of the groups that tie for
\* the last places are kept is the build's choice.
TopModels(frame) ==
    {top \in SUBSET MakeModels(frame) :
        /\ \/ top = MakeModels(frame)
           \/ Cardinality(top) = 10
        /\ Cardinality(top) <= 10
        /\ \A p \in top : \A q \in MakeModels(frame) \ top :
              SalesOf(frame, p)[1] * SalesOf(frame, q)[2]
                  >= SalesOf(frame, q)[1] * SalesOf(frame, p)[2]}

\* px.bar(top_models, ..., color='make'): one bar trace per make
create_top_models_chart(filtered_data, top_models) ==
    IF filtered_data = <<>> THEN EmptyDict
    ELSE FigureToDict(Figure(
             Traces("bar", Cardinality({pair[1] : pair \in top_models})),
             "Top 10 Models by Sales"))

create_state_map_chart(filtered_data) ==
    IF filtered_data = <<>> THEN EmptyDict
    ELSE FigureToDict(Figure(Traces("choropleth", 1), "Sales by State"))

create_heatmap_chart(filtered_data, x_col, y_col) ==
    IF filtered_data = <<>> THEN EmptyDict
    ELSE FigureToDict(Figure(Traces("heatmap", 1),
                             <<"Sales Heatmap by ", y_col, " and ", x_col>>))

\* the lines create_exogenous_figure adds: one per exogenous column that
\* the records have, date being there
ExogenousTraces(columns) ==
    Traces("scatter",
           Cardinality({c \in DOMAIN Exogenous :
                           "date" \in columns /\ Exogenous[c] \in columns}))
\* the columns of the synthetic frame of _create_sample_exogenous_figure
SampleColumns ==
    {"date", "sales", "unemployment", "gas_price", "cpi_all", "search_volume",
     "is_forecast"}

\* create_exogenous_figure(title, forecast_data) of a list of dicts: a
\* Figure, of synthetic data when the list is empty
create_exogenous_figure(title, forecast_data) ==
    IF forecast_data = <<>>
    THEN Figure(ExogenousTraces(SampleColumns), title)
    ELSE Figure(ExogenousTraces(DOMAIN forecast_data[1]), title)

(***************************************************************************)
(* The session with its charts: the computed vars are evaluated between    *)
(* the events of the selection, model type and horizon controls.           *)
(***************************************************************************)
\* a computed var is evaluated: what it returned is kept with the event,
\* and the object is as the evaluation left it
Evaluate(name, d, chart) ==
    /\ event.calls < MaxCalls
    /\ dash' = d
    /\ event' = [name |-> name, calls |-> event.calls + 1, trace |-> <<>>,
                 raised |-> None, before |-> dash, returned |-> chart]
    /\ UNCHANGED <<data, monthly, remonthly, engine, call, trained, ret, steps,
                   built, lib>>

\* create_sales_trend_chart catches what its body raises, so the sample
\* chart of the except branch is never returned
get_sales_trend_chart ==
    IF HasForecast(dash)
    THEN Evaluate("get_sales_trend_chart",
                  [dash EXCEPT !.forecast_df =
                      create_sales_trend_chart(dash.forecast_df).frame],
                  create_sales_trend_chart(dash.forecast_df).chart)
    ELSE Evaluate("get_sales_trend_chart", dash, EmptyDict)

get_vehicle_type_chart ==
    Evaluate("get_vehicle_type_chart", dash,
             IF HasFiltered(dash)
             THEN create_vehicle_type_chart(dash.filtered_df) ELSE EmptyDict)

get_region_chart ==
    Evaluate("get_region_chart", dash,
             IF HasFiltered(dash)
             THEN create_region_chart(dash.filtered_df) ELSE EmptyDict)

get_exogenous_impact_chart ==
    Evaluate("get_exogenous_impact_chart", dash,
             IF HasForecast(dash)
             THEN create_exogenous_impact_chart(dash.forecast_df) ELSE EmptyDict)

get_exogenous_figure ==
    Evaluate("get_exogenous_figure", dash,
             create_exogenous_figure("Exogenous Variable Trends", dash.forecast_data))

get_top_models_chart ==
    IF HasFiltered(dash)
    THEN \E top_models \in TopModels(dash.filtered_df) :
             Evaluate("get_top_models_chart", dash,
                      create_top_models_chart(dash.filtered_df, top_models))
    ELSE Evaluate("get_top_models_chart", dash, EmptyDict)

get_state_map_chart ==
    Evaluate("get_state_map_chart", dash,
             IF HasFiltered(dash)
             THEN create_state_map_chart(dash.filtered_df) ELSE EmptyDict)

get_sales_by_month_chart ==
    Evaluate("get_sales_by_month_chart", dash,
             IF HasFiltered(dash)
             THEN create_heatmap_chart(dash.filtered_df, "month", "vehicle_type")
             ELSE EmptyDict)

NextCharts ==
    \/ update_regions \/ update_model_type \/ update_forecast_months
    \/ get_sales_trend_chart \/ get_vehicle_type_chart \/ get_region_chart
    \/ get_exogenous_impact_chart \/ get_exogenous_figure
    \/ get_top_models_chart \/ get_state_map_chart \/ get_sales_by_month_chart

SpecCharts == InitDash /\ [][NextCharts]_vars

(***************************************************************************)
(* Vocabulary of the properties.                                           *)
(***************************************************************************)
\* equality of two fractions, whatever their terms
REq(a, b) == a[1] * b[2] = b[1] * a[2]
\* the product of three fractions, not reduced
Prod3(a, b, c) == <<a[1] * b[1] * c[1], a[2] * b[2] * c[2]>>

DatesIn(rows) == {rows[k].date : k \in DOMAIN rows}
LatestDate(rows) == CHOOSE d \in DatesIn(rows) : \A e \in DatesIn(rows) : e <= d

\* the sum of a column over the rows of one date, from the first row on
RECURSIVE TotalOn(_, _, _)
TotalOn(rows, col, d) ==
    IF rows = <<>> THEN <<0, 1>>
    ELSE LET r == Head(rows)
             t == TotalOn(Tail(rows), col, d)
         IN  IF r.date = d
             THEN <<r[col][1] * t[2] + t[1] * r[col][2], r[col][2] * t[2]>>
             ELSE t
CountOn(rows, d) == Cardinality({k \in DOMAIN rows : rows[k].date = d})

\* the first day of each month of 2015 and of 2016, in days since 2015-01-01
MonthStarts ==
    <<0, 31, 59, 90, 120, 151, 181, 212, 243, 273, 304, 334,
      365, 396, 425, 456, 486, 517, 547, 578, 609, 639, 670, 700, 731>>
\* the index of the month of 2015-2016 that holds day d
MonthIndex(d) == CHOOSE j \in 1..24 : MonthStarts[j] <= d /\ d < MonthStarts[j + 1]
CalendarYear(d) == 2015 + (MonthIndex(d) - 1) \div 12
CalendarMonth(d) == ((MonthIndex(d) - 1) % 12) + 1

\* a forecast call has returned a series / the series / its two segments
Returns == ret.done /\ ret.value.ok
Series == ret.value.value
NumHistorical == Cardinality(DatesIn(data))
Anchor == Series[NumHistorical]
ForecastRow(k) == Series[NumHistorical + k]

(***************************************************************************)
(* Properties of forecast (specification Spec).                            *)
(***************************************************************************)

\* C1, as stated: in every forecast call that returns, the time_factor of
\* forecast step k (k = 1 the first forecast row) is 1 + 0.05 * k.
C1_TimeFactorCountsFromOne ==
    Returns =>
        \A k \in DOMAIN steps : REq(steps[k].time_factor, <<20 + k, 20>>)

\* C1, amended: the time_factor of forecast step k is 1 + 0.05 * (k - 1);
\* the first forecast row uses 1.0.
C1_TimeFactorCountsFromZero ==
    Returns =>
        /\ Len(steps) = (IF call.months_ahead > 0 THEN call.months_ahead ELSE 0)
        /\ \A k \in DOMAIN steps : REq(steps[k].time_factor, <<20 + (k - 1), 20>>)
        /\ Len(steps) >= 1 => steps[1].time_factor = <<1, 1>>

C1_Witness == Returns /\ Len(steps) >= 2

\* C2: every forecast row's value of each exogenous variable is the anchor
\* row's value of that variable times that variable's own modifier times the
\* time_factor of the row's step.
C2_ProjectionPerVariable ==
    (Returns /\ data # <<>>) =>
        \A k \in DOMAIN steps :
            LET row == ForecastRow(k)
                tf == steps[k].time_factor
            IN  /\ REq(row.unemployment,
                       Prod3(Anchor.unemployment, call.mods.unemployment, tf))
                /\ REq(row.gas_price,
                       Prod3(Anchor.gas_price, call.mods.gas_price, tf))
                /\ REq(row.cpi_all, Prod3(Anchor.cpi_all, call.mods.cpi, tf))
                /\ REq(row.search_volume,
                       Prod3(Anchor.search_volume, call.mods.search_volume, tf))

C2_Witness ==
    /\ Returns
    /\ Len(steps) >= 2
    /\ call.mods.unemployment = <<2, 1>>
    /\ call.mods.gas_price = <<1, 1>>
    /\ ForecastRow(2).gas_price # Anchor.gas_price

\* C3: a forecast row's sales is the raw prediction times 1.2 when the month
\* of the row's date is in {3,4,5,11,12}, times 0.8 when it is in {1,2}, and
\* the raw prediction itself in the months 6..10.
C3_SeasonalAdjustment ==
    Returns =>
        \A k \in DOMAIN steps :
            LET row == ForecastRow(k)
                raw == call.raws[k]
                m == CalendarMonth(row.date)
            IN  /\ m \in {3, 4, 5, 11, 12} => REq(row.sales, <<6 * raw[1], 5 * raw[2]>>)
                /\ m \in {1, 2} => REq(row.sales, <<4 * raw[1], 5 * raw[2]>>)
                /\ m \in 6..10 => row.sales = raw

C3_Witness ==
    /\ Returns
    /\ \E k \in DOMAIN steps : CalendarMonth(ForecastRow(k).date) \in {1, 2}
    /\ \E k \in DOMAIN steps : CalendarMonth(ForecastRow(k).date) \in {3, 4, 5, 11, 12}

\* C4: for months_ahead >= 0 the returned series is the historical monthly
\* rows (one per date of the input, not flagged) followed by exactly
\* months_ahead flagged rows, and its dates strictly increase.
C4_CombinedSeriesShape ==
    (Returns /\ data # <<>> /\ call.months_ahead >= 0) =>
        /\ Len(Series) = NumHistorical + call.months_ahead
        /\ {Series[k].date : k \in 1..NumHistorical} = DatesIn(data)
        /\ \A k \in DOMAIN Series : Series[k].is_forecast = (k > NumHistorical)
        /\ \A k \in 1..(Len(Series) - 1) : Series[k].date < Series[k + 1].date

C4_Witness ==
    /\ Returns
    /\ call.months_ahead = 2
    /\ NumHistorical = 2
    /\ data[1].date > data[2].date

\* C5: forecast with months_ahead = 0 on a non-empty record set raises
\* nothing and returns exactly the historical rows, none of them flagged.
C5_ZeroMonths ==
    (ret.done /\ data # <<>> /\ call.months_ahead = 0) =>
        /\ ret.value.ok
        /\ Len(Series) = NumHistorical
        /\ \A k \in DOMAIN Series : ~Series[k].is_forecast

C5_Witness ==
    ret.done /\ data # <<>> /\ call.months_ahead = 0 /\ ~engine.fitted

\* C10: the k-th forecast row is dated 30 * k days after the latest date of
\* the input, and its year and month are those of that date.
C10_ThirtyDayStride ==
    (Returns /\ data # <<>>) =>
        \A k \in DOMAIN steps :
            LET row == ForecastRow(k)
            IN  /\ row.date = LatestDate(data) + 30 * k
                /\ row.year = CalendarYear(row.date)
                /\ row.month = CalendarMonth(row.date)

C10_Witness ==
    /\ Returns
    /\ Len(steps) = 2
    /\ ForecastRow(1).year = 2015
    /\ ForecastRow(2).year = 2016

(***************************************************************************)
(* Properties of _aggregate_monthly_data (specification SpecAgg).          *)
(***************************************************************************)

\* C6: for every date of the input there is exactly one output row, whose
\* sales is the sum of the sales of that date's records and whose four
\* exogenous values are the means over the same records.
C6_SumAndMeansPerDate ==
    monthly.done =>
        LET out == monthly.value
        IN  /\ \A d \in DatesIn(data) :
                 Cardinality({k \in DOMAIN out : out[k].date = d}) = 1
            /\ \A k \in DOMAIN out :
                 LET d == out[k].date
                     n == CountOn(data, d)
                 IN  /\ d \in DatesIn(data)
                     /\ REq(out[k].sales, TotalOn(data, "sales", d))
                     /\ \A j \in DOMAIN Exogenous :
                          LET t == TotalOn(data, Exogenous[j], d)
                          IN  REq(out[k][Exogenous[j]], <<t[1], t[2] * n>>)

C6_Witness ==
    /\ monthly.done
    /\ Len(data) = 3
    /\ data[1].date > data[2].date
    /\ data[3].date = data[1].date
    /\ data[3].unemployment # data[1].unemployment

\* C7: the aggregate holds exactly one row per calendar month (year, month)
\* that occurs in the input.
C7_OneRowPerCalendarMonth ==
    monthly.done =>
        LET out == monthly.value
            months == {<<CalendarYear(d), CalendarMonth(d)>> : d \in DatesIn(data)}
        IN  \A ym \in months :
                Cardinality({k \in DOMAIN out :
                    <<CalendarYear(out[k].date), CalendarMonth(out[k].date)>> = ym}) = 1

\* C8: whatever the order of the input rows, the output dates strictly
\* increase, so the last output row is the one of the latest input date.
C8_SortedByDate ==
    (monthly.done /\ data # <<>>) =>
        LET out == monthly.value
        IN  /\ \A k \in 1..(Len(out) - 1) : out[k].date < out[k + 1].date
            /\ out[Len(out)].date = LatestDate(data)

C8_Witness ==
    /\ monthly.done
    /\ Len(data) = 3
    /\ data[1].date > data[2].date
    /\ data[3].date > data[1].date

\* C9: aggregating an aggregate gives the same rows again.
C9_Idempotent ==
    (remonthly.done /\ data # <<>>) => remonthly.value = monthly.value

C9_Witness ==
    /\ remonthly.done
    /\ Len(monthly.value) = 2
    /\ Len(data) = 3
    /\ \E k \in DOMAIN monthly.value : monthly.value[k].unemployment = <<6, 1>>

(***************************************************************************)
(* Properties of the engine's construction and training (Spec).            *)
(***************************************************************************)
\* C11: train with an empty record set ends in an error and leaves the
\* engine, its fitted backend and its training_data, exactly as it was
\* before the call.
C11_TrainEmptyLeavesEngine ==
    [][(trained' # trained /\ trained'.value.rows = <<>>) =>
           /\ ~trained'.value.out.ok
           /\ engine' = engine]_vars

\* an engine trained on records was given an empty set, and is still
\* trained on those records
C11_Witness ==
    /\ trained.done
    /\ trained.value.rows = <<>>
    /\ ~trained.value.out.ok
    /\ engine.fitted
    /\ engine.training_data.done
    /\ engine.training_data.value = AggregateMonthly(data)

\* C15: a model_type other than "linear" and "forest" makes the constructor
\* raise, so no engine exists that train or forecast could be called on;
\* "linear" and "forest" always give an engine of that backend.
C15_ConstructorRejectsUnknownType ==
    /\ built.value.model_type \notin {"linear", "forest"} =>
          /\ ~built.value.out.ok
          /\ engine.kind = None
          /\ ~trained.done
          /\ ~ret.done
    /\ built.value.model_type \in {"linear", "forest"} =>
          /\ built.value.out.ok
          /\ engine.kind = built.value.model_type

\* the constructor was given a name of no backend, and raised
C15_Witness ==
    /\ built.value.model_type = "ridge"
    /\ ~built.value.out.ok
    /\ built.value.out.error = "ValueError"

\* C16: forecast of a non-empty record set on an engine that was never
\* trained fails, whatever months_ahead is.
C16_UntrainedForecastFails ==
    (ret.done /\ ~engine.fitted /\ data # <<>>) => ~ret.value.ok

(***************************************************************************)
(* Properties of the dashboard session (SpecDash).                         *)
(***************************************************************************)
FilterHandlers ==
    {"update_regions", "update_states", "update_vehicle_types",
     "update_makes", "update_models", "update_years"}
SliderHandlers ==
    {"update_unemployment", "update_gas_price", "update_cpi",
     "update_search_volume", "update_forecast_months"}
\* the handlers that run train_model / generate_forecast, the two methods
\* called as events included
TrainingHandlers ==
    FilterHandlers \cup {"on_load", "update_model_type", "update_active_tab",
                         "filter_data", "train_model"}
ForecastingHandlers ==
    (TrainingHandlers \ {"train_model"}) \cup SliderHandlers
                                         \cup {"generate_forecast"}
\* the last handler was one of these
Ran(handlers) == event.calls > 0 /\ event.name \in handlers
\* the backend train_model selects for the current model_type
SelectedBackend ==
    IF dash.model_type = "Linear Regression" THEN "linear" ELSE "forest"

\* the values a selection restricts its column to (none: no restriction)
Chosen(selection) ==
    IF selection.type = "list"
    THEN {selection.items[k] : k \in DOMAIN selection.items}
    ELSE {}
Allows(selection, x) == Chosen(selection) = {} \/ x \in Chosen(selection)
\* the row matches every selection that is not empty
Matches(r) ==
    /\ Allows(dash.selected_regions, r.region)
    /\ Allows(dash.selected_states, r.state)
    /\ Allows(dash.selected_vehicle_types, r.vehicle_type)
    /\ Allows(dash.selected_makes, r.make)
    /\ Allows(dash.selected_models, r.model)
    /\ Allows(dash.selected_years, r.model_year)
\* the columns of a row; its label and the dtype of its date are none
Columns(r) == [c \in (DOMAIN r) \ {"index", "date_dtype"} |-> r[c]]

\* no record of the data set matches the selection
NoMatch == SelectSeq(data, Matches) = <<>>
\* the handlers the framework generates, one per var
SetterHandlers ==
    {GeneratedSetters[k].handler : k \in DOMAIN GeneratedSetters} \cup {"set_active_tab"}
\* train_model and generate_forecast find no records: the handler ran
\* filter_data first and the selection matches none, or it did not and
\* _filtered_df, left by an earlier handler, holds none
NoRecords ==
    IF event.name \in RunsFilterData THEN NoMatch ELSE ~HasFiltered(dash)
\* the handler did not run filter_data, and _filtered_df holds records
StaleRecords == event.name \notin RunsFilterData /\ HasFiltered(dash)
\* train(self._filtered_df) of a new engine of the selected backend
Training == TrainEngine(NewEngine(SelectedBackend), dash.filtered_df)

\* C12: when the filter selection matches no record, train_model leaves the
\* session's engine as it was: a trained engine is still that trained
\* engine afterwards.
C12_EmptySelectionKeepsEngine ==
    (Ran(TrainingHandlers) /\ NoMatch) =>
        dash.scenario_engine = event.before.scenario_engine

\* C12, amended: train_model always replaces the session's engine by a new
\* engine of the selected backend, and trains it when _filtered_df holds
\* records.  Reached through a handler that runs filter_data first, with a
\* selection that matches no record, it leaves the new engine untrained,
\* does not call train, and raises nothing; so it does in update_model_type
\* and as an event of its own when _filtered_df holds no records.  There it
\* is _filtered_df as the last filter_data left it that counts, not the
\* selection: when that frame holds records, train is called on them, also
\* when a setter has since made a selection that matches no record.
C12_EmptySelectionNewEngine ==
    Ran(TrainingHandlers) =>
        /\ event.trace # <<>>
        /\ event.trace[1] = "ScenarioEngine"
        /\ dash.scenario_engine.kind = SelectedBackend
        /\ NoRecords =>
              /\ dash.scenario_engine =
                    [kind |-> SelectedBackend, fitted |-> FALSE,
                     training_data |-> Pending]
              /\ \A k \in DOMAIN event.trace : event.trace[k] # "train"
              /\ event.raised = None
        /\ StaleRecords =>
              /\ Len(event.trace) >= 2
              /\ event.trace[2] = "train"
              /\ dash.scenario_engine = Training.engine

\* a session whose engine was trained selected a region of no record
C12_Witness ==
    /\ Ran(FilterHandlers)
    /\ NoMatch
    /\ event.before.scenario_engine.fitted
    /\ ~dash.scenario_engine.fitted

C14_EngineFailuresCaught ==
    event.calls > 0 => event.raised = None

\* C17: the modifier and horizon handlers forecast with the session's
\* engine as it is: they construct and train nothing, and the engine, its
\* fitted backend and its training_data, is the same after the forecast.
C17_SlidersKeepEngine ==
    Ran(SliderHandlers) =>
        /\ dash.scenario_engine = event.before.scenario_engine
        /\ \A k \in DOMAIN event.trace : event.trace[k] = "forecast"

\* a slider moved in a session with a trained engine, and the forecast on
\* display changed
C17_Witness ==
    /\ Ran(SliderHandlers)
    /\ event.trace = <<"forecast">>
    /\ dash.scenario_engine.fitted
    /\ dash.forecast_data # <<>>
    /\ dash.forecast_data # event.before.forecast_data

\* the handlers of the filter changes, slider adjustments and model-type
\* switches
ChangeHandlers == FilterHandlers \cup SliderHandlers \cup {"update_model_type"}

\* C18: every filter change, slider adjustment and model-type switch runs
\* training and then forecasting, to completion, within the handler call.
C18_FullPipelineEveryChange ==
    Ran(ChangeHandlers) =>
        /\ event.trace = <<"ScenarioEngine", "train", "forecast">>
        /\ event.raised = None

\* C18, amended: a filter change or model-type switch, through its update_
\* handler, constructs an engine and, when _filtered_df is a frame that
\* holds records, trains it and then forecasts.  An AttributeError that
\* train raises is dropped by train_model: the engine stays untrained and
\* the handler goes on to generate_forecast; any other exception of train
\* ends the handler.  A slider adjustment only forecasts, and only when
\* _filtered_df is a frame that holds records.  The setter of a var
\* assigns the var and constructs, trains and forecasts nothing.
C18_PipelinePerHandler ==
    /\ Ran(FilterHandlers \cup {"update_model_type"}) =>
          IF ~HasFiltered(dash)
          THEN event.trace = <<"ScenarioEngine">> /\ event.raised = None
          ELSE IF Training.out.ok
          THEN /\ event.trace = <<"ScenarioEngine", "train", "forecast">>
               /\ event.raised = None
               /\ dash.scenario_engine.fitted
          ELSE IF Training.out.error = "AttributeError"
          THEN /\ event.trace = <<"ScenarioEngine", "train", "forecast">>
               /\ event.raised = None
               /\ ~dash.scenario_engine.fitted
          ELSE /\ event.trace = <<"ScenarioEngine", "train">>
               /\ event.raised = Training.out.error
    /\ Ran(SliderHandlers) =>
          /\ event.raised = None
          /\ event.trace = IF ~HasFiltered(dash) THEN <<>> ELSE <<"forecast">>
    /\ Ran(SetterHandlers) =>
          /\ event.raised = None
          /\ event.trace = <<>>
          /\ dash.scenario_engine = event.before.scenario_engine
          /\ dash.filtered_df = event.before.filtered_df
          /\ dash.forecast_df = event.before.forecast_df

\* a filter change in a session whose engine was trained: a new engine is
\* trained and forecasts
C18_Witness ==
    /\ Ran(FilterHandlers)
    /\ event.trace = <<"ScenarioEngine", "train", "forecast">>
    /\ event.before.scenario_engine.fitted
    /\ dash.scenario_engine.fitted
    /\ dash.filtered_df # event.before.filtered_df

\* the series on display is the forecast r, which did not fail
Displays(r) == r.out.ok /\ dash.forecast_data = ToDictRecords(r.out.value)
\* the forecast, for the session's modifiers and horizon, of an engine of
\* the selected backend trained on the filtered records
CurrentForecast ==
    ForecastCall(TrainEngine(NewEngine(SelectedBackend), dash.filtered_df).engine,
                 dash.filtered_df, ModifiersOf(dash), dash.forecast_months, call.raws)

\* C19: once a handler that changes a filter, a modifier, the horizon or
\* the model type has completed, forecast_data is the Combined Series of the
\* current filtered records, modifiers, horizon and a model of the selected
\* type trained on those records; it is empty only when no record matches.
C19_ForecastIsCurrent ==
    Ran(ChangeHandlers) =>
        IF dash.filtered_data = <<>> THEN dash.forecast_data = <<>>
        ELSE Displays(CurrentForecast)

\* C20: after filter_data the filtered frame holds exactly the rows of the
\* data set that match every non-empty selection, in the data set's order,
\* and filtered_data their records; a selection that is None, the empty
\* str or the empty list restricts nothing, and the rows an earlier
\* selection left out are back when it is cleared.
C20_FilteredIsConjunction ==
    Ran(RunsFilterData) =>
        /\ dash.filtered_df = SelectSeq(data, Matches)
        /\ dash.filtered_df_class = "DataFrame"
        /\ Len(dash.filtered_data) = Len(dash.filtered_df)
        /\ \A k \in DOMAIN dash.filtered_data :
              dash.filtered_data[k] = Columns(dash.filtered_df[k])

\* the region selected before is cleared with None: the rows it left out
\* are back
C20_Witness ==
    /\ Ran({"update_regions"})
    /\ dash.selected_regions = PyNone
    /\ Chosen(event.before.selected_regions) = {"North"}
    /\ Len(event.before.filtered_df) = 2
    /\ Len(dash.filtered_df) = Len(data)
    /\ Len(data) > 2

(***************************************************************************)
(* Further properties of forecast (specification Spec).                    *)
(***************************************************************************)
\* a < b for two numbers with positive denominators
RLess(a, b) == a[1] * b[2] < b[1] * a[2]

\* C22: within one forecast call the time_factor of an earlier step is
\* strictly smaller than that of every later step, and the time_factors of
\* consecutive steps differ by exactly 0.05.
C22_TimeFactorStrictlyIncreasing ==
    Returns =>
        /\ \A i1, i2 \in DOMAIN steps :
              steps[i1].i < steps[i2].i =>
                  RLess(steps[i1].time_factor, steps[i2].time_factor)
        /\ \A k \in 1..(Len(steps) - 1) :
              /\ steps[k + 1].i = steps[k].i + 1
              /\ REq(RAdd(steps[k + 1].time_factor,
                          RMul(Rat(-1), steps[k].time_factor)), <<5, 100>>)

C22_Witness ==
    /\ Returns
    /\ Len(steps) >= 2
    /\ steps[1].i = 0
    /\ steps[2].i = 1
    /\ steps[1].time_factor # steps[2].time_factor

\* C30: forecast does not validate months_ahead: on a non-empty record set
\* (an empty one fails at the anchor row before months_ahead is read) every
\* months_ahead <= 0, the negative ones included, raises nothing, runs no
\* iteration of the loop, so the backend's predict is never called and an
\* engine that was never trained returns too, and the series returned is
\* the historical monthly rows alone, none of them flagged.
C30_NonPositiveMonthsUnvalidated ==
    (ret.done /\ data # <<>> /\ call.months_ahead <= 0) =>
        /\ ret.value.ok
        /\ steps = <<>>
        /\ Len(Series) = NumHistorical
        /\ {Series[k].date : k \in DOMAIN Series} = DatesIn(data)
        /\ \A k \in DOMAIN Series :
              /\ ~Series[k].is_forecast
              /\ REq(Series[k].sales, TotalOn(data, "sales", Series[k].date))

C30_Witness ==
    /\ ret.done
    /\ data # <<>>
    /\ call.months_ahead < 0
    /\ ~engine.fitted
    /\ ret.value.ok
    /\ Len(ret.value.value) = 2

\* C24: no handler changes the data set df, and the engine's train and
\* forecast, each of which runs _aggregate_monthly_data, leave the frame
\* passed to them as it was: a handler that does not run filter_data leaves
\* _filtered_df with the rows and columns it had, and after every handler
\* each row of _filtered_df is a row of df, no column added or changed.
C24_InputsNotModified ==
    [][/\ data' = data
       /\ event'.name \notin RunsFilterData => dash'.filtered_df = dash.filtered_df
       /\ \A k \in DOMAIN dash'.filtered_df :
             \E j \in DOMAIN data : dash'.filtered_df[k] = data[j]]_vars

\* a slider's forecast from filtered records returned a series with flagged
\* rows; the filtered records and the data set hold no such column
C24_Witness ==
    /\ Ran(SliderHandlers)
    /\ event.trace = <<"forecast">>
    /\ \E k \in DOMAIN dash.forecast_df : dash.forecast_df[k].is_forecast
    /\ dash.filtered_df # <<>>
    /\ \A k \in DOMAIN dash.filtered_df : "is_forecast" \notin DOMAIN dash.filtered_df[k]
    /\ \A k \in DOMAIN data : "is_forecast" \notin DOMAIN data[k]

(***************************************************************************)
(* Properties of the fitted linear engine (specification SpecFit).         *)
(***************************************************************************)
\* the history of the claim: every month unemployment 5, gas_price 3,
\* cpi_all 250, search_volume 80 and sales 20000 - 1000 * 5
ConstantHistory ==
    /\ Len(data) = FitMonths
    /\ \A k \in DOMAIN data :
          /\ data[k].unemployment = Rat(5)
          /\ data[k].gas_price = Rat(3)
          /\ data[k].cpi_all = Rat(250)
          /\ data[k].search_volume = Rat(80)
          /\ data[k].sales = Rat(20000 - 1000 * 5)
\* sales = 20000 - 1000 * unemployment in a history whose unemployment
\* takes more than one value
FallingHistory ==
    /\ \A k \in DOMAIN data :
          REq(data[k].sales, RSub(Rat(20000), RMul(Rat(1000), data[k].unemployment)))
    /\ \E j, k \in DOMAIN data : data[j].unemployment # data[k].unemployment
\* gas_price varies, and only as unemployment does: it is a multiple of
\* unemployment plus a constant
GasFollowsUnemployment ==
    /\ \E j, k \in DOMAIN data : data[j].gas_price # data[k].gas_price
    /\ \A i, j, k \in DOMAIN data :
          REq(RMul(RSub(data[i].gas_price, data[j].gas_price),
                   RSub(data[i].unemployment, data[k].unemployment)),
              RMul(RSub(data[i].gas_price, data[k].gas_price),
                   RSub(data[i].unemployment, data[j].unemployment)))
\* the linear engine was trained on the history and a forecast of it returned
TrainedForecast ==
    /\ engine.kind = "linear"
    /\ engine.fitted
    /\ trained.done
    /\ trained.value.out.ok
    /\ Returns
\* one month ahead, unemployment doubled, the other modifiers 1
DoubledUnemployment ==
    /\ call.months_ahead = 1
    /\ call.mods = [unemployment |-> Rat(2), gas_price |-> Rat(1),
                    cpi |-> Rat(1), search_volume |-> Rat(1)]

\* C23, as stated: for the claim's history the raw prediction of the month
\* forecast with unemployment doubled is strictly below the last
\* historical sales.
C23_DoubledUnemploymentLowersSales ==
    (ConstantHistory /\ TrainedForecast /\ DoubledUnemployment) =>
        RLess(steps[1].raw, Anchor.sales)

\* C23, amended: for the claim's history, in which no feature varies, every
\* raw prediction equals the last historical sales, 15000, whatever the
\* modifiers; the raw prediction with unemployment doubled is strictly
\* below the last historical sales when unemployment varies in the history,
\* and it is 20000 - 1000 * (2 * the last unemployment) unless gas_price
\* varies just as unemployment does, the fit then sharing the slope
\* between the two.
C23_ConstantHistoryPredictsMean ==
    TrainedForecast =>
        /\ ConstantHistory =>
              /\ Anchor.sales = Rat(15000)
              /\ \A k \in DOMAIN steps : steps[k].raw = Anchor.sales
        /\ (FallingHistory /\ DoubledUnemployment) =>
              /\ RLess(steps[1].raw, Anchor.sales)
              /\ REq(steps[1].raw,
                     RSub(Rat(20000), RMul(Rat(2000), Anchor.unemployment)))
                    <=> ~GasFollowsUnemployment

C23_Witness ==
    /\ ConstantHistory
    /\ TrainedForecast
    /\ DoubledUnemployment
    /\ steps[1].unemployment = Rat(10)
    /\ steps[1].raw = Rat(15000)

(***************************************************************************)
(* Further properties of the dashboard session (SpecDash).                 *)
(***************************************************************************)
\* C25: toggle_table changes show_table and nothing else of the session:
\* selections, modifiers, horizon, model type, engine, filtered and
\* forecast frames and lists are as before, and it constructs, trains and
\* forecasts nothing.
C25_ToggleTableOnlyShowTable ==
    Ran({"toggle_table"}) =>
        /\ event.trace = <<>>
        /\ event.raised = None
        /\ \A f \in (DOMAIN dash) \ {"show_table"} : dash[f] = event.before[f]
        /\ DOMAIN dash = DOMAIN event.before

\* the table is switched on in a session that shows a forecast of a
\* trained engine
C25_Witness ==
    /\ Ran({"toggle_table"})
    /\ dash.show_table
    /\ ~event.before.show_table
    /\ dash.scenario_engine.fitted
    /\ dash.forecast_data # <<>>

\* the ASCII numerals "0".."9" and the number one denotes
Numerals == 48..57
IsNumeral(chars) == chars # <<>> /\ \A k \in DOMAIN chars : chars[k] \in Numerals
NumeralValue(c) == c - 48
RECURSIVE NumberFrom(_, _)
NumberFrom(chars, acc) ==
    IF chars = <<>> THEN acc
    ELSE NumberFrom(Tail(chars), 10 * acc + NumeralValue(Head(chars)))
NumberOf(chars) == NumberFrom(chars, 0)
\* the years supplied: the items of a list, a single str as the one year
\* it is
SuppliedYears(years) ==
    CASE years.type = "list" -> years.items
      [] years.type = "str" -> <<years.chars>>
      [] OTHER -> <<>>
\* the argument can be iterated and every year supplied is a numeral
AllConvert(years) ==
    /\ years.type \in {"list", "str"}
    /\ \A k \in DOMAIN SuppliedYears(years) : IsNumeral(SuppliedYears(years)[k])

\* C26: after update_years(years), selected_years is the list of the
\* integers the years supplied denote when every one is a numeral, and the
\* empty list when one is not or years cannot be iterated; either way
\* filter_data has run on that selection and what leaves the handler, if
\* anything, was raised by the training that filter_data starts, not by a
\* conversion.
C26_YearsConvertedOrCleared ==
    Ran({"update_years"}) =>
        /\ dash.selected_years =
              IF AllConvert(event.arg)
              THEN PyList([k \in DOMAIN SuppliedYears(event.arg) |->
                              NumberOf(SuppliedYears(event.arg)[k])])
              ELSE PyList(<<>>)
        /\ dash.filtered_df = SelectSeq(data, Matches)
        /\ event.trace # <<>>
        /\ event.trace[1] = "ScenarioEngine"
        /\ event.raised # None => event.trace[Len(event.trace)] = "train"

\* C29: after update_model_type(value) the session's engine was constructed
\* with "linear" when value is "Linear Regression" and with "forest" for
\* every other string; the constructor never refuses (an exception that
\* leaves the handler was raised by train), and in every state the
\* session's engine is one of the two backends.
C29_LabelSelectsBackend ==
    /\ dash.scenario_engine.kind \in {"linear", "forest"}
    /\ Ran({"update_model_type"}) =>
          /\ dash.scenario_engine.kind =
                (IF dash.model_type = "Linear Regression" THEN "linear" ELSE "forest")
          /\ event.trace # <<>>
          /\ event.trace[1] = "ScenarioEngine"
          /\ event.raised # None => event.trace[Len(event.trace)] = "train"

\* the label "linear", which is not the linear backend's label, gives a
\* trained random forest
C29_Witness ==
    /\ Ran({"update_model_type"})
    /\ dash.model_type = "linear"
    /\ event.before.scenario_engine.kind = "linear"
    /\ dash.scenario_engine.kind = "forest"
    /\ dash.scenario_engine.fitted

\* C27: whenever a handler's generate_forecast has called forecast, the
\* session's engine was trained, on the monthly aggregate of the current
\* filtered frame, with the backend the current model type selects.
C27_ForecastOnlyAfterTraining ==
    (event.calls > 0 /\ \E k \in DOMAIN event.trace : event.trace[k] = "forecast") =>
        /\ dash.scenario_engine.fitted
        /\ dash.scenario_engine.kind = SelectedBackend
        /\ dash.scenario_engine.training_data =
              Returned(AggregateMonthly(dash.filtered_df))

(***************************************************************************)
(* Properties of the charts (specification SpecCharts).                    *)
(***************************************************************************)
\* the computed vars that give a chart as a dict, those of them that draw
\* the forecast, and the data the var evaluated last has drawn
ChartVars ==
    {"get_sales_trend_chart", "get_exogenous_impact_chart", "get_vehicle_type_chart",
     "get_region_chart", "get_top_models_chart", "get_state_map_chart",
     "get_sales_by_month_chart"}
ForecastCharts == {"get_sales_trend_chart", "get_exogenous_impact_chart"}
ChartInput ==
    IF event.name \in ForecastCharts THEN event.before.forecast_df
    ELSE IF event.name = "get_exogenous_figure" THEN event.before.forecast_data
    ELSE event.before.filtered_df
IsEmptyDict(v) == v.type = "dict" /\ DOMAIN v.items = {}
HasDataAndLayout(v) == v.type = "dict" /\ {"data", "layout"} \subseteq DOMAIN v.items

\* C21, as stated: every chart var, get_exogenous_figure included, returns
\* the empty dict when its data is empty and a dict with the keys data and
\* layout otherwise.
C21_EveryChartEmptyOrFigureDict ==
    Ran(ChartVars \cup {"get_exogenous_figure"}) =>
        IF ChartInput = <<>> THEN IsEmptyDict(event.returned)
        ELSE HasDataAndLayout(event.returned)

\* a frame that holds records is what the chart var reads
ChartHasInput ==
    IF event.name \in ForecastCharts THEN HasForecast(event.before)
    ELSE HasFiltered(event.before)

\* C21, amended: the seven chart vars of charts.py return the empty dict
\* when their frame is empty (or the attribute holds no frame yet) and a
\* dict with the keys data and layout otherwise; get_exogenous_figure
\* returns a Figure object in both cases, with the four lines of synthetic
\* data when forecast_data is empty.
C21_ChartDictsAndExogenousFigure ==
    /\ Ran(ChartVars) =>
          IF ~ChartHasInput THEN IsEmptyDict(event.returned)
          ELSE /\ HasDataAndLayout(event.returned)
               /\ DOMAIN event.returned.items = {"data", "layout"}
    /\ Ran({"get_exogenous_figure"}) =>
          /\ event.returned.type = "Figure"
          /\ Len(event.returned.data) = 4

\* the sales trend of a forecast with history and forecast rows: two lines
C21_Witness ==
    /\ Ran({"get_sales_trend_chart"})
    /\ ChartInput # <<>>
    /\ HasDataAndLayout(event.returned)
    /\ Len(event.returned.items.data) = 2

\* C28: evaluating a chart var leaves _forecast_df and _filtered_df as they
\* were, rows and columns, so that in every state _forecast_df holds
\* exactly the records of forecast_data.
C28_ChartsLeaveFrames ==
    /\ Ran(ChartVars) =>
          /\ dash.forecast_df = event.before.forecast_df
          /\ dash.filtered_df = event.before.filtered_df
    /\ ToDictRecords(dash.forecast_df) = dash.forecast_data


====
